---------------------------- MODULE Spec2Model ----------------------------
(***************************************************************************)
(* A model of the DUCKMON agent system: the supervisor (orchestrator.mjs), *)
(* the chain client (shared/wallet.js) against the DuckmonAgent contract,  *)
(* the hub (ws-server.js), the prediction agent, the transfer-log scanner  *)
(* of the whale observer and the shared price service.                     *)
(*                                                                         *)
(* Every component is a separate operating-system process in the program,  *)
(* so each has its own next-state relation and its own specification; the  *)
(* variables of the other components stay at their initial values.         *)
(***************************************************************************)
EXTENDS Integers, Sequences, FiniteSets, TLC

VARIABLES
    \* ---- supervisor (orchestrator.mjs)
    agentProcesses,   \* agent name -> the child process in the map, or NoProc
    agentHealth,      \* agent name -> health record, or NoHealth
    liveChildren,     \* agent name -> set of child processes that are alive
    spawnCount,       \* agent name -> number of children spawned so far
    restartTimers,    \* agent name -> delays of the pending restart timers
    launchIdx,        \* how many agents main() has launched
    orchPhase,        \* "up" | "stopping" (exit timer armed) | "exited"
    termSent,         \* agent name -> children that were sent SIGTERM
    restartLog,       \* agent name -> delays scheduled so far (observer)
    lastExit,         \* agent name -> code of the latest 'exit' event (observer)
    exitTimer,        \* ms until the exit timer of the signal handler fires, -1 unarmed
    exitCode,         \* the code the supervisor exited with, -1 while it runs
    sinceSignal,      \* ms since the signal was handled (observer)
    aliveAtSignal,    \* agent name -> children alive when it was handled (observer)
    \* ---- chain client (shared/wallet.js) and the DuckmonAgent contract
    walletClient,     \* TRUE when createClients() built a wallet (PRIVATE_KEY set)
    signalsDeployed,  \* TRUE when contracts.DUCK_SIGNALS is not the zero address
    chainAgent,       \* the contract's agents[self] entry
    agentListLen,     \* length of the contract's agentList
    mempool,          \* transactions submitted and not yet mined
    receipts,         \* mined transactions with their status
    txCount,          \* transactions submitted so far (gives the next hash)
    regPc,            \* where the running registerAgent call stands
    regTx,            \* hash the running registerAgent call waits for
    regCur,           \* what the running registerAgent call did so far
    regLog,           \* the finished registerAgent calls, in order (observer)
    chainPosts,       \* the signals and predictions the contract stored, in order
    postPc,           \* where the running postSignal/postPrediction call stands
    postTx,           \* hash the running call waits for
    postCur,          \* what the running call is and did so far
    postLog,          \* the finished postSignal/postPrediction calls (observer)
    chainWorkload,    \* "register" | "post": the calls the process makes in this run
    \* ---- hub (ws-server.js)
    hubNow,           \* Date.now() in the hub process, ms since it started
    hubAgents,        \* state.agents: agent name -> heartbeat entry
    signals,          \* state.signals, newest first
    agentSignals,     \* state.agentSignals: agent name -> latest signal
    whaleAlerts,      \* state.whaleAlerts, newest first
    tokenLaunches,    \* state.tokenLaunches, newest first
    mevOpportunities, \* state.mevOpportunities, newest first
    gasUpdates,       \* state.gasUpdates, newest first
    emitted,          \* event name -> payloads io.emit sent, oldest first
    lastResponse,     \* the HTTP response of the latest request
    hubQuota,         \* endpoint -> requests the environment may still send
    hubTicksLeft,     \* clock steps the environment may still take
    hubBodies,        \* the request bodies the environment sends
    signalSteps,      \* what the latest accepted POST /api/signal had done after
                      \* each of its statements (observer)
    \* ---- prediction agent (prediction-bot/index.js)
    predNow,              \* Date.now() in the agent process, ms since main() began
    predClockLeft,        \* clock steps the environment may still take
    predTimerDue,         \* when the setInterval timer fires next, -1 before it is armed
    predCanPost,          \* walletClient && agentState.isRegistered after main()'s setup
    demoMode,             \* the module's demoMode flag
    lastRealPrice,        \* the module's lastRealPrice, in 1e-9 MON
    priceHistoryLen,      \* priceHistory.length
    predHeap,             \* the prediction objects created so far, by identity
    pendingPredictions,   \* performance.pendingPredictions (object identities)
    verifiedPredictions,  \* performance.verifiedPredictions (object identities)
    perfCorrect,          \* performance.correct
    perfIncorrect,        \* performance.incorrect
    perfAccuracy,         \* performance.accuracy, whole percent
    totalPredictions,     \* performance.totalPredictions
    currentPredictions,   \* agentState.currentPredictions (object identities)
    predTicks,            \* tick -> the frame of that runPrediction() call
    predTally,            \* object identity -> times its outcome was counted (observer)
    \* ---- transfer-log scanner of the whale observer (unnamed/part_008)
    lastScannedBlock,     \* the module's lastScannedBlock
    transfersScanned,     \* performance.transfersScanned
    scanWhaleAlerts,      \* performance.whaleAlerts (= performance.totalAlerts here)
    trackedWallets,       \* trackedWallets: address -> tally, or NoWallet
    scanTimerArmed,       \* TRUE once main() called setInterval(runWhaleAnalysis)
    scanTicks,            \* tick -> the frame of that runWhaleAnalysis() call
    scanLog,              \* ranges of the getLogs calls that succeeded (observer)
    \* ---- price service (unnamed/part_006)
    priceNow,             \* Date.now() in the calling process, ms
    priceClockLeft,       \* clock steps the environment may still take
    caches,               \* _caches: token -> [data, timestamp]
    lastKnownPrice,       \* _lastKnownPrice, in 1e-9 MON
    priceCalls,           \* call -> the frame of that fetchPrice() call
    priceSeq,             \* number of call and return events so far (observer)
    priceLog,             \* the finished fetchPrice calls, in return order (observer)
    dexWorkload,          \* "any" | "empty": what DexScreener answers in this run
    \* ---- trading agent (unnamed/part_013)
    priceHistory,         \* the module's priceHistory, prices in 1e-9 MON
    volumeHistory,        \* the module's volumeHistory
    isRegistered,         \* the module's isRegistered, set by main()
    aiEnabled,            \* AI.isAIEnabled(): GEMINI_API_KEY is set
    performance,          \* the module's performance counters
    tradMain,             \* main(): "running" | "up" (timer armed) | "failed" (rejected)
    tradTicks,            \* slot -> the frame of a runAnalysis() call in progress
    tradTicksLeft,        \* runAnalysis() calls the environment may still start
    tradWorkload,         \* the inputs the environment feeds this run
    tradPostLog,          \* the postSignal() calls made: count and latest (observer)
    tradSendLog,          \* the sendSignal() calls made: count and latest (observer)
    tradReturns,          \* "null" | "threw" | "signal": how the calls ended (observer)
    \* ---- history of Market Analyzer v2.0 (unnamed/part_001)
    mv2PriceHistory,      \* the module's priceHistory (price samples)
    mv2VolumeHistory,     \* the module's volumeHistory
    mv2Primed,            \* iterations of main()'s priming loop done so far
    mv2InFlight,          \* runAnalysis() calls waiting for fetchPrice()
    mv2TicksLeft,         \* runAnalysis() calls the environment may still start
    mv2Workload,          \* the inputs the environment feeds this run
    \* ---- analysis loop of the hub (ws-server.js)
    analysisInterval,     \* the module's analysisInterval: a timer id, or NoTimer
    loopTimers,           \* the interval timers of the runtime that are active
    timerCount,           \* timers created so far (gives the next timer id)
    currentToken,         \* state.currentToken, "" while it is null
    analysisResults,      \* state.analysisResults: token -> results stored so far
    loopRuns,             \* token -> runAndBroadcast() calls in progress
    loopStarts,           \* the runAndBroadcast() calls started, in order (observer)
    loopEmitted,          \* tokens of the analysis:result events, oldest first
    socketErrors,         \* socket -> error events sent to it
    loopRequestsLeft,     \* token:analyze events the environment may still send
    loopFiresLeft,        \* timer callbacks the environment may still let fire
    \* ---- advisor client (unnamed/part_004)
    geminiKey,            \* whether GEMINI_API_KEY is configured
    geminiCall,           \* the callGeminiAPI() call in progress: position, retries, attempts
    geminiLog,            \* the calls that returned: attempts made and result (observer)
    geminiCallsLeft       \* calls the agents may still make

orchVars == <<agentProcesses, agentHealth, liveChildren, spawnCount,
              restartTimers, launchIdx, orchPhase, termSent, restartLog,
              lastExit, exitTimer, exitCode, sinceSignal, aliveAtSignal>>

shutdownVars == <<exitTimer, exitCode, sinceSignal, aliveAtSignal>>

chainVars == <<walletClient, signalsDeployed, chainAgent, agentListLen, mempool,
               receipts, txCount, regPc, regTx, regCur, regLog, chainPosts, postPc,
               postTx, postCur, postLog, chainWorkload>>

hubVars == <<hubNow, hubAgents, signals, agentSignals, whaleAlerts, tokenLaunches,
             mevOpportunities, gasUpdates, emitted, lastResponse, hubQuota,
             hubTicksLeft, hubBodies, signalSteps>>

predVars == <<predNow, predClockLeft, predTimerDue, predCanPost, demoMode,
              lastRealPrice, priceHistoryLen, predHeap, pendingPredictions,
              verifiedPredictions, perfCorrect, perfIncorrect, perfAccuracy,
              totalPredictions, currentPredictions, predTicks, predTally>>

scanVars == <<lastScannedBlock, transfersScanned, scanWhaleAlerts, trackedWallets,
              scanTimerArmed, scanTicks, scanLog>>

priceVars == <<priceNow, priceClockLeft, caches, lastKnownPrice, priceCalls,
               priceSeq, priceLog, dexWorkload>>

tradVars == <<priceHistory, volumeHistory, isRegistered, aiEnabled, performance,
              tradMain, tradTicks, tradTicksLeft, tradWorkload, tradPostLog,
              tradSendLog, tradReturns>>

mv2Vars == <<mv2PriceHistory, mv2VolumeHistory, mv2Primed, mv2InFlight,
             mv2TicksLeft, mv2Workload>>

loopVars == <<analysisInterval, loopTimers, timerCount, currentToken,
              analysisResults, loopRuns, loopStarts, loopEmitted, socketErrors,
              loopRequestsLeft, loopFiresLeft>>

aiVars == <<geminiKey, geminiCall, geminiLog, geminiCallsLeft>>

vars == <<orchVars, chainVars, hubVars, predVars, scanVars, priceVars, tradVars,
          mv2Vars, loopVars, aiVars>>

\* What an action of one component leaves alone: the other components.
notOrch ==
    <<chainVars, hubVars, predVars, scanVars, priceVars, tradVars, mv2Vars, loopVars,
      aiVars>>
notChain ==
    <<orchVars, hubVars, predVars, scanVars, priceVars, tradVars, mv2Vars, loopVars,
      aiVars>>
notHub ==
    <<orchVars, chainVars, predVars, scanVars, priceVars, tradVars, mv2Vars, loopVars,
      aiVars>>
notPred ==
    <<orchVars, chainVars, hubVars, scanVars, priceVars, tradVars, mv2Vars, loopVars,
      aiVars>>
notScan ==
    <<orchVars, chainVars, hubVars, predVars, priceVars, tradVars, mv2Vars, loopVars,
      aiVars>>
notPrice ==
    <<orchVars, chainVars, hubVars, predVars, scanVars, tradVars, mv2Vars, loopVars,
      aiVars>>
notTrad ==
    <<orchVars, chainVars, hubVars, predVars, scanVars, priceVars, mv2Vars, loopVars,
      aiVars>>
notMv2 ==
    <<orchVars, chainVars, hubVars, predVars, scanVars, priceVars, tradVars, loopVars,
      aiVars>>
notLoop ==
    <<orchVars, chainVars, hubVars, predVars, scanVars, priceVars, tradVars, mv2Vars,
      aiVars>>
notAi ==
    <<orchVars, chainVars, hubVars, predVars, scanVars, priceVars, tradVars, mv2Vars,
      loopVars>>

Min(a, b) == IF a < b THEN a ELSE b
Max(a, b) == IF a > b THEN a ELSE b

RECURSIVE Pow2(_)
Pow2(n) == IF n <= 0 THEN 1 ELSE 2 * Pow2(n - 1)

(***************************************************************************)
(*                      SUPERVISOR  (orchestrator.mjs)                     *)
(***************************************************************************)

\* Bound of the supervisor model: the crashes (non-zero exits) observed
\* over all agents.
MaxCrashes == 8

MAX_RESTART_DELAY == 300000
INITIAL_RESTART_DELAY == 5000

\* The agents table, in launch order.
agents ==
    << "Trading Oracle", "Prediction Bot", "Market Analyzer", "Whale Observer",
       "Liquidity Sentinel", "Social Sentiment", "On-Chain Analytics" >>

\* The agents the model launches: the first two of the table.
Agents == { agents[1], agents[2] }

NoProc == 0

NoHealth == [status |-> "ABSENT", restarts |-> 0, restartDelay |-> 0]

\* The health record runAgent creates when the map has none.
NewHealth ==
    [status |-> "STARTING", restarts |-> 0, restartDelay |-> INITIAL_RESTART_DELAY]

\* The argument of a child's 'exit' event: a numeric code, or null when the
\* child was terminated by a signal.
ExitCodes ==
    { [isNull |-> FALSE, code |-> 0],
      [isNull |-> FALSE, code |-> 1],
      [isNull |-> TRUE,  code |-> 0] }

\* No 'exit' event seen yet.
NoExit == [isNull |-> FALSE, code |-> -1]

\* The exit handler's test  code !== 0 && code !== null.
IsCrashMutant(code) == code.isNull \/ code.code # 0
IsCrash(code) == (~code.isNull) /\ code.code # 0

\* const delay = Math.min(health.restartDelay, MAX_RESTART_DELAY)
RestartDelayOf(health) == Min(health.restartDelay, MAX_RESTART_DELAY)

\* health.restartDelay = Math.min(delay * 2, MAX_RESTART_DELAY)
NextRestartDelayMutant(delay) == Min(delay + INITIAL_RESTART_DELAY, MAX_RESTART_DELAY)
NextRestartDelay(delay) == Min(delay * 2, MAX_RESTART_DELAY)

RECURSIVE SumRestarts(_, _)
SumRestarts(health, S) ==
    IF S = {} THEN 0
    ELSE LET a == CHOOSE x \in S : TRUE
         IN  health[a].restarts + SumRestarts(health, S \ {a})

InitOrch ==
    /\ agentProcesses = [a \in Agents |-> NoProc]
    /\ agentHealth = [a \in Agents |-> NoHealth]
    /\ liveChildren = [a \in Agents |-> {}]
    /\ spawnCount = [a \in Agents |-> 0]
    /\ restartTimers = [a \in Agents |-> << >>]
    /\ launchIdx = 0
    /\ orchPhase = "up"
    /\ termSent = [a \in Agents |-> {}]
    /\ restartLog = [a \in Agents |-> << >>]
    /\ lastExit = [a \in Agents |-> NoExit]
    /\ exitTimer = -1
    /\ exitCode = -1
    /\ sinceSignal = 0
    /\ aliveAtSignal = [a \in Agents |-> {}]

\* runAgent(agent): spawn a child, create or reuse the health record, mark
\* it RUNNING and put the child in agentProcesses.
runAgent(a) ==
    LET proc == spawnCount[a] + 1
        health == IF agentHealth[a] = NoHealth THEN NewHealth ELSE agentHealth[a]
    IN  /\ spawnCount' = [spawnCount EXCEPT ![a] = proc]
        /\ liveChildren' = [liveChildren EXCEPT ![a] = @ \cup {proc}]
        /\ agentHealth' = [agentHealth EXCEPT ![a] = [health EXCEPT !.status = "RUNNING"]]
        /\ agentProcesses' = [agentProcesses EXCEPT ![a] = proc]

\* main(): the staggered launch loop, one agent per step.
Launch ==
    /\ orchPhase # "exited"
    /\ launchIdx < Len(agents)
    /\ agents[launchIdx + 1] \in Agents
    /\ runAgent(agents[launchIdx + 1])
    /\ launchIdx' = launchIdx + 1
    /\ UNCHANGED <<restartTimers, orchPhase, termSent, restartLog, lastExit>>
    /\ UNCHANGED shutdownVars
    /\ UNCHANGED notOrch

\* proc.on('error'): only the status changes.
ChildError(a) ==
    /\ orchPhase # "exited"
    /\ liveChildren[a] # {}
    /\ agentHealth[a].status # "ERROR"
    /\ agentHealth' = [agentHealth EXCEPT ![a].status = "ERROR"]
    /\ UNCHANGED <<agentProcesses, liveChildren, spawnCount, restartTimers,
                   launchIdx, orchPhase, termSent, restartLog, lastExit>>
    /\ UNCHANGED shutdownVars
    /\ UNCHANGED notOrch

\* setTimeout(() => runAgent(agent), delay): one more pending restart timer.
setTimeoutMutant(timers, delay) == timers \o <<delay, delay>>
setTimeout(timers, delay) == Append(timers, delay)

\* proc.on('exit', code) of child p of agent a.
ChildExit(a, p, code) ==
    /\ orchPhase # "exited"
    /\ p \in liveChildren[a]
    /\ IsCrash(code) => SumRestarts(agentHealth, Agents) < MaxCrashes
    /\ liveChildren' = [liveChildren EXCEPT ![a] = @ \ {p}]
    /\ agentProcesses' = [agentProcesses EXCEPT ![a] = NoProc]
    /\ IF IsCrash(code)
       THEN LET delay == RestartDelayOf(agentHealth[a])
            IN  /\ agentHealth' = [agentHealth EXCEPT
                       ![a].status = "STOPPED",
                       ![a].restarts = @ + 1,
                       ![a].restartDelay = NextRestartDelay(delay)]
                /\ restartTimers' = [restartTimers EXCEPT ![a] = setTimeout(@, delay)]
                /\ restartLog' = [restartLog EXCEPT ![a] = Append(@, delay)]
       ELSE /\ agentHealth' = [agentHealth EXCEPT ![a].status = "STOPPED"]
            /\ UNCHANGED <<restartTimers, restartLog>>
    /\ lastExit' = [lastExit EXCEPT ![a] = code]
    /\ UNCHANGED <<spawnCount, launchIdx, orchPhase, termSent>>
    /\ UNCHANGED shutdownVars
    /\ UNCHANGED notOrch

\* The restart timer set by the exit handler fires: runAgent(agent).
RestartTimerFire(a) ==
    /\ orchPhase # "exited"
    /\ restartTimers[a] # << >>
    /\ restartTimers' = [restartTimers EXCEPT ![a] = Tail(@)]
    /\ runAgent(a)
    /\ UNCHANGED <<launchIdx, orchPhase, termSent, restartLog, lastExit>>
    /\ UNCHANGED shutdownVars
    /\ UNCHANGED notOrch

\* The children the signal handler sends SIGTERM to: those in agentProcesses.
KilledMutant(a) == {}
Killed(a) == IF agentProcesses[a] # NoProc THEN {agentProcesses[a]} ELSE {}

EXIT_DELAY == 2000

\* process.on('SIGINT' / 'SIGTERM'): SIGTERM to every child in the map, then
\* arm the 2 s exit timer.  The model delivers the signal once, and not
\* before the synchronous start of main(), which launches the first agent
\* (its delay is 0).
Shutdown ==
    /\ orchPhase = "up"
    /\ launchIdx >= 1
    /\ termSent' = [a \in Agents |-> termSent[a] \cup Killed(a)]
    /\ orchPhase' = "stopping"
    /\ exitTimer' = EXIT_DELAY
    /\ sinceSignal' = 0
    /\ aliveAtSignal' = liveChildren
    /\ UNCHANGED <<agentProcesses, agentHealth, liveChildren, spawnCount,
                   restartTimers, launchIdx, restartLog, lastExit, exitCode>>
    /\ UNCHANGED notOrch

\* Time passes after the signal, up to the moment the exit timer is due.
ShutdownClockSteps == {500, 1500}

ShutdownClock(d) ==
    /\ orchPhase = "stopping"
    /\ d <= exitTimer
    /\ exitTimer' = exitTimer - d
    /\ sinceSignal' = sinceSignal + d
    /\ UNCHANGED <<agentProcesses, agentHealth, liveChildren, spawnCount,
                   restartTimers, launchIdx, orchPhase, termSent, restartLog, lastExit,
                   exitCode, aliveAtSignal>>
    /\ UNCHANGED notOrch

\* setTimeout(() => process.exit(0), 2000) fires.
ProcessExit ==
    /\ orchPhase = "stopping"
    /\ exitTimer = 0
    /\ orchPhase' = "exited"
    /\ exitCode' = 0
    /\ UNCHANGED <<agentProcesses, agentHealth, liveChildren, spawnCount,
                   restartTimers, launchIdx, termSent, restartLog, lastExit,
                   exitTimer, sinceSignal, aliveAtSignal>>
    /\ UNCHANGED notOrch

NextOrch ==
    \/ Launch
    \/ \E a \in Agents : ChildError(a)
    \/ \E a \in Agents : \E p \in liveChildren[a] : \E code \in ExitCodes :
          ChildExit(a, p, code)
    \/ \E a \in Agents : RestartTimerFire(a)
    \/ Shutdown
    \/ \E d \in ShutdownClockSteps : ShutdownClock(d)
    \/ ProcessExit

(***************************************************************************)
(*        CHAIN CLIENT (shared/wallet.js) AND CONTRACT (DuckmonAgent.sol)  *)
(***************************************************************************)

\* Bound of the chain-client model: registerAgent calls made in succession.
MaxRegisterCalls == 3

\* The name the agent registers under.
AGENT_NAME == "Trading Oracle v3.0"

NoTx == 0

\* agents[msg.sender] before any registration: the zero struct.
UnregisteredAgent == [name |-> "", isRegistered |-> FALSE]

\* What one registerAgent call did: the value it returned, whether its read
\* of agents(self) succeeded and found isRegistered, and whether it submitted
\* a registerAgent transaction.
FreshCall == [readOk |-> FALSE, sawRegistered |-> FALSE, wrote |-> FALSE, ret |-> FALSE]

\* Bound of the chain-client model: postSignal and postPrediction calls made.
MaxPostCalls == 2

PostFns == {"postSignal", "postPrediction"}

\* The confidences the callers pass: the largest the contract accepts and
\* the first beyond it.
PostConfidences == {100, 101}

\* What one postSignal or postPrediction call is and did.
PostCall(fn, confidence) == [fn |-> fn, confidence |-> confidence, wrote |-> FALSE, ret |-> FALSE]

NoPostCall == PostCall("none", 0)

Tx(hash, fn, name, confidence) ==
    [hash |-> hash, fn |-> fn, name |-> name, confidence |-> confidence]

InitChainState(workload, wallet, deployed, agent) ==
    /\ chainWorkload = workload
    /\ walletClient = wallet
    /\ signalsDeployed = deployed
    /\ chainAgent = agent
    /\ agentListLen = (IF agent.isRegistered THEN 1 ELSE 0)
    /\ mempool = {}
    /\ receipts = {}
    /\ txCount = 0
    /\ regPc = "idle"
    /\ regTx = NoTx
    /\ regCur = FreshCall
    /\ regLog = << >>
    /\ chainPosts = << >>
    /\ postPc = "idle"
    /\ postTx = NoTx
    /\ postCur = NoPostCall
    /\ postLog = << >>

\* The process after createClients(): with or without PRIVATE_KEY, with or
\* without a deployed contract, the wallet registered by an earlier run or not.
\* A run either registers, again and again, or registers at most once, as
\* main() does, and then posts signals and predictions.
InitChain ==
    \E workload \in {"register", "post"}, wallet \in BOOLEAN, deployed \in BOOLEAN,
       registered \in BOOLEAN :
        InitChainState(workload, wallet, deployed,
            IF registered /\ deployed
            THEN [name |-> AGENT_NAME, isRegistered |-> TRUE]
            ELSE UnregisteredAgent)

ParkChain == InitChainState("register", FALSE, FALSE, UnregisteredAgent)

\* Contract: registerAgent(name) executed for msg.sender = self.  The require
\* reverts the transaction when the sender is registered already.
ContractRegisterRevertsMutant(agent) == FALSE
ContractRegisterReverts(agent) == agent.isRegistered

ContractRegisterAgent(agent, name) == [name |-> name, isRegistered |-> TRUE]

\* Contract: postSignal and postPrediction executed for msg.sender = self.
\* The requires revert the transaction of an unregistered sender and a
\* confidence above 100 (a prediction's target time is taken to be ahead).
ContractPostReverts(agent, confidence) == ~agent.isRegistered \/ ~(confidence <= 100)

\* The chain mines one pending transaction.  A transaction sent to the zero
\* address, where no contract is, succeeds and does nothing.
MineTx(tx) ==
    /\ tx \in mempool
    /\ mempool' = mempool \ {tx}
    /\ IF tx.fn = "registerAgent"
       THEN /\ IF ContractRegisterReverts(chainAgent)
               THEN /\ receipts' = receipts \cup {[hash |-> tx.hash, status |-> "reverted"]}
                    /\ UNCHANGED <<chainAgent, agentListLen>>
               ELSE /\ receipts' = receipts \cup {[hash |-> tx.hash, status |-> "success"]}
                    /\ chainAgent' = ContractRegisterAgent(chainAgent, tx.name)
                    /\ agentListLen' = agentListLen + 1
            /\ UNCHANGED chainPosts
       ELSE /\ IF ~signalsDeployed
               THEN /\ receipts' = receipts \cup {[hash |-> tx.hash, status |-> "success"]}
                    /\ UNCHANGED chainPosts
               ELSE IF ContractPostReverts(chainAgent, tx.confidence)
               THEN /\ receipts' = receipts \cup {[hash |-> tx.hash, status |-> "reverted"]}
                    /\ UNCHANGED chainPosts
               ELSE /\ receipts' = receipts \cup {[hash |-> tx.hash, status |-> "success"]}
                    /\ chainPosts' = Append(chainPosts, tx)
            /\ UNCHANGED <<chainAgent, agentListLen>>
    /\ UNCHANGED <<walletClient, signalsDeployed, txCount, regPc, regTx, regCur, regLog,
                   postPc, postTx, postCur, postLog, chainWorkload>>
    /\ UNCHANGED notChain

\* registerAgent returns: the call is logged and the caller may call again.
RegReturn(cur, value) ==
    /\ regLog' = Append(regLog, [cur EXCEPT !.ret = value])
    /\ regCur' = FreshCall
    /\ regPc' = "idle"
    /\ regTx' = NoTx

\* if (!walletClient || contracts.DUCK_SIGNALS === '0x00..00') return false
RegSkipsMutant == FALSE
RegSkips == (~walletClient) \/ (~signalsDeployed)

\* if (agentData[5]) return true
AlreadyRegisteredMutant(agentData) == FALSE
AlreadyRegistered(agentData) == agentData.isRegistered

\* registerAgent(name) is called: the guard, then the read of agents(self)
\* is issued.
RegStart ==
    /\ chainWorkload = "post" => regLog = << >> /\ postLog = << >> /\ postPc = "idle"
    /\ regPc = "idle"
    /\ Len(regLog) < MaxRegisterCalls
    /\ IF RegSkips
       THEN RegReturn(FreshCall, FALSE)
       ELSE /\ regPc' = "read"
            /\ regCur' = FreshCall
            /\ UNCHANGED <<regTx, regLog>>
    /\ UNCHANGED <<walletClient, signalsDeployed, chainAgent, agentListLen, mempool,
                   receipts, txCount>>
    /\ UNCHANGED <<chainPosts, postPc, postTx, postCur, postLog, chainWorkload>>
    /\ UNCHANGED notChain

\* readContract(agents, [self]) settles: it throws (caught: return false), or
\* it returns the entry; a registered agent returns true, otherwise
\* writeContract(registerAgent, [name]) is issued.
RegReadSettles(ok) ==
    /\ regPc = "read"
    /\ IF ~ok
       THEN RegReturn(regCur, FALSE)
       ELSE IF AlreadyRegistered(chainAgent)
            THEN RegReturn([regCur EXCEPT !.readOk = TRUE, !.sawRegistered = TRUE], TRUE)
            ELSE /\ regPc' = "write"
                 /\ regCur' = [regCur EXCEPT !.readOk = TRUE]
                 /\ UNCHANGED <<regTx, regLog>>
    /\ UNCHANGED <<walletClient, signalsDeployed, chainAgent, agentListLen, mempool,
                   receipts, txCount>>
    /\ UNCHANGED <<chainPosts, postPc, postTx, postCur, postLog, chainWorkload>>
    /\ UNCHANGED notChain

\* writeContract settles: it throws before anything is sent (caught: return
\* false), or the transaction is submitted and its hash returned; then
\* waitForTransactionReceipt({ hash }) is issued.
RegWriteSettles(ok) ==
    /\ regPc = "write"
    /\ IF ~ok
       THEN /\ RegReturn(regCur, FALSE)
            /\ UNCHANGED <<mempool, txCount>>
       ELSE /\ txCount' = txCount + 1
            /\ mempool' = mempool \cup
                  {Tx(txCount + 1, "registerAgent", AGENT_NAME, 0)}
            /\ regTx' = txCount + 1
            /\ regCur' = [regCur EXCEPT !.wrote = TRUE]
            /\ regPc' = "receipt"
            /\ UNCHANGED regLog
    /\ UNCHANGED <<walletClient, signalsDeployed, chainAgent, agentListLen, receipts>>
    /\ UNCHANGED <<chainPosts, postPc, postTx, postCur, postLog, chainWorkload>>
    /\ UNCHANGED notChain

\* waitForTransactionReceipt settles: it throws (a timeout or an RPC error,
\* caught: return false) or, once the transaction is mined, returns the
\* receipt, whose status the client does not read: return true.
RegReceiptSettles(ok) ==
    /\ regPc = "receipt"
    /\ ok => \E r \in receipts : r.hash = regTx
    /\ RegReturn(regCur, ok)
    /\ UNCHANGED <<walletClient, signalsDeployed, chainAgent, agentListLen, mempool,
                   receipts, txCount>>
    /\ UNCHANGED <<chainPosts, postPc, postTx, postCur, postLog, chainWorkload>>
    /\ UNCHANGED notChain

\* postSignal or postPrediction returns.
PostReturn(cur, value) ==
    /\ postLog' = Append(postLog, [cur EXCEPT !.ret = value])
    /\ postCur' = NoPostCall
    /\ postPc' = "idle"
    /\ postTx' = NoTx

\* if (!walletClient) return false
PostSkipsMutant == FALSE
PostSkips == ~walletClient

\* postSignal(...) or postPrediction(...) is called with a confidence: the
\* guard, then writeContract is issued with BigInt(Math.round(confidence)).
PostStart(fn, confidence) ==
    /\ chainWorkload = "post"
    /\ postPc = "idle"
    /\ regPc = "idle"
    /\ Len(postLog) < MaxPostCalls
    /\ IF PostSkips
       THEN PostReturn(PostCall(fn, confidence), FALSE)
       ELSE /\ postPc' = "write"
            /\ postCur' = PostCall(fn, confidence)
            /\ UNCHANGED <<postTx, postLog>>
    /\ UNCHANGED <<walletClient, signalsDeployed, chainAgent, agentListLen, mempool,
                   receipts, txCount, regPc, regTx, regCur, regLog, chainPosts, chainWorkload>>
    /\ UNCHANGED notChain

\* writeContract settles: it throws before anything is sent (caught: return
\* false), or the transaction is submitted and its hash returned; then
\* waitForTransactionReceipt({ hash }) is issued.
PostWriteSettles(ok) ==
    /\ postPc = "write"
    /\ IF ~ok
       THEN /\ PostReturn(postCur, FALSE)
            /\ UNCHANGED <<mempool, txCount>>
       ELSE /\ txCount' = txCount + 1
            /\ mempool' = mempool \cup
                  {Tx(txCount + 1, postCur.fn, AGENT_NAME, postCur.confidence)}
            /\ postTx' = txCount + 1
            /\ postCur' = [postCur EXCEPT !.wrote = TRUE]
            /\ postPc' = "receipt"
            /\ UNCHANGED postLog
    /\ UNCHANGED <<walletClient, signalsDeployed, chainAgent, agentListLen, receipts,
                   regPc, regTx, regCur, regLog, chainPosts, chainWorkload>>
    /\ UNCHANGED notChain

\* waitForTransactionReceipt settles: it throws (caught: return false) or,
\* once the transaction is mined, returns the receipt, whose status the client
\* does not read: return hash.
PostReceiptSettles(ok) ==
    /\ postPc = "receipt"
    /\ ok => \E r \in receipts : r.hash = postTx
    /\ PostReturn(postCur, ok)
    /\ UNCHANGED <<walletClient, signalsDeployed, chainAgent, agentListLen, mempool,
                   receipts, txCount, regPc, regTx, regCur, regLog, chainPosts, chainWorkload>>
    /\ UNCHANGED notChain

NextChain ==
    \/ RegStart
    \/ \E fn \in PostFns, confidence \in PostConfidences : PostStart(fn, confidence)
    \/ \E ok \in BOOLEAN : PostWriteSettles(ok)
    \/ \E ok \in BOOLEAN : PostReceiptSettles(ok)
    \/ \E ok \in BOOLEAN : RegReadSettles(ok)
    \/ \E ok \in BOOLEAN : RegWriteSettles(ok)
    \/ \E ok \in BOOLEAN : RegReceiptSettles(ok)
    \/ \E tx \in mempool : MineTx(tx)

(***************************************************************************)
(*                            HUB  (ws-server.js)                          *)
(***************************************************************************)

\* Bounds of the hub model: requests sent beyond a ring's cap in a flood,
\* signal posts and clock steps in a mixed workload.
MaxOver == 2
MaxSignalPosts == 2
MaxHubTicks == 2

MAX_ITEMS == 100
MAX_ALERTS == 50
SIGNAL_EXPIRY == 20 * 60 * 1000

\* AGENT_WEIGHTS, in hundredths, in the order of the table.
WeightNames ==
    << "Trading Oracle v3.0", "Market Analyzer v3.0", "Prediction Bot v3.0",
       "Liquidity Sentinel v1.0", "Social Sentiment v1.0", "On-Chain Analytics v1.0",
       "Whale Observer v2.0" >>

AGENT_WEIGHTS ==
    [n \in { WeightNames[i] : i \in 1..Len(WeightNames) } |->
        CASE n = "Trading Oracle v3.0" -> 30
          [] n = "Market Analyzer v3.0" -> 20
          [] n = "Prediction Bot v3.0" -> 15
          [] n = "Liquidity Sentinel v1.0" -> 12
          [] n = "Social Sentiment v1.0" -> 10
          [] n = "On-Chain Analytics v1.0" -> 8
          [] OTHER -> 5]

\* SIGNAL_TO_SCORE[type] || 0
SIGNAL_TO_SCOREMutant(type) == IF type = "BUY" THEN 1 ELSE 0
SIGNAL_TO_SCORE(type) ==
    CASE type = "BUY" -> 1
      [] type = "SELL" -> -1
      [] OTHER -> 0

\* A request body.  An absent agentName is the empty string, which the
\* handlers' test  !data.agentName  treats alike.
Body(name, type, confidence) ==
    [agentName |-> name, type |-> type, confidence |-> confidence]

\* The bodies of a mixed workload: three agents' signals and a body without
\* agentName.
MixedBodies ==
    { Body("Trading Oracle v3.0", "BUY", 80),
      Body("Market Analyzer v3.0", "HOLD", 50),
      Body("Prediction Bot v3.0", "SELL", 60),
      Body("", "BUY", 70) }

\* Four agents' signals, one of each kind and two that agree.
FourBodies ==
    { Body("Trading Oracle v3.0", "BUY", 80),
      Body("Market Analyzer v3.0", "HOLD", 50),
      Body("Prediction Bot v3.0", "SELL", 60),
      Body("Liquidity Sentinel v1.0", "BUY", 70) }

\* The single body of a flood.
FloodBodies == { Body("Whale Observer v2.0", "BUY", 70) }

Endpoints == {"signal", "launch", "mev", "gas", "whale", "heartbeat"}

Rings == {"signal", "launch", "mev", "gas", "whale"}

\* The cap each ingress handler passes to addToList.
RingCap(e) == IF e = "signal" THEN MAX_ITEMS ELSE MAX_ALERTS

\* The event each ingress handler emits.
EventOf(e) ==
    CASE e = "signal" -> "signal"
      [] e = "launch" -> "token:launch"
      [] e = "mev" -> "mev:opportunity"
      [] e = "gas" -> "gas:update"
      [] e = "whale" -> "whale:alert"
      [] OTHER -> "agent:heartbeat"

Events == { EventOf(e) : e \in Endpoints }

NoSignal == [agentName |-> "", type |-> "", confidence |-> 0, receivedAt |-> -1]

NoHeartbeat == [status |-> "", uptime |-> 0, lastHeartbeat |-> -1]

NoResponse == [status |-> 0, kind |-> "none"]

\* The agent names the environment's bodies carry.
NamesOf(bodies) == { b.agentName : b \in bodies } \ {""}

\* { ...item, receivedAt: Date.now() }
Stamp(item, now) ==
    [agentName |-> item.agentName, type |-> item.type,
     confidence |-> item.confidence, receivedAt |-> now]

\* addToList(list, item, max): unshift the stamped item, then truncate.
addToListMutant(list, item, max, now) == <<Stamp(item, now)>> \o list
addToListPushMutant(list, item, max, now) ==
    LET l == list \o <<Stamp(item, now)>>
    IN  IF Len(l) > max THEN SubSeq(l, 1, max) ELSE l
addToList(list, item, max, now) ==
    LET l == <<Stamp(item, now)>> \o list
    IN  IF Len(l) > max THEN SubSeq(l, 1, max) ELSE l

\* list.slice(0, n)
Slice(list, n) == SubSeq(list, 1, Min(n, Len(list)))

\* The loop test of computeConfluenceScore:
\*   if (!sig || now - sig.receivedAt > SIGNAL_EXPIRY) continue;
ContributesMutant(sig, now) == sig # NoSignal
Contributes(sig, now) == sig # NoSignal /\ ~(now - sig.receivedAt > SIGNAL_EXPIRY)

\* state.agentSignals[name]
SignalOf(sigs, name) == IF name \in DOMAIN sigs THEN sigs[name] ELSE NoSignal

\* The sums of computeConfluenceScore over the first n entries of
\* AGENT_WEIGHTS.  weightedSum is in units of 1/10000 (score * weight with
\* the confidence in percent and the weight in hundredths), totalWeight in
\* hundredths.
RECURSIVE ConfluenceSums(_, _, _)
ConfluenceSums(sigs, now, n) ==
    IF n = 0
    THEN [weightedSum |-> 0, totalWeight |-> 0, agentCount |-> 0, breakdown |-> {}]
    ELSE LET acc == ConfluenceSums(sigs, now, n - 1)
             name == WeightNames[n]
             weight == AGENT_WEIGHTS[name]
             sig == SignalOf(sigs, name)
         IN  IF ~Contributes(sig, now)
             THEN acc
             ELSE [weightedSum |-> acc.weightedSum
                                     + SIGNAL_TO_SCORE(sig.type) * sig.confidence * weight,
                   totalWeight |-> acc.totalWeight + weight,
                   agentCount |-> acc.agentCount + 1,
                   breakdown |-> acc.breakdown \cup {name}]

Abs(x) == IF x < 0 THEN -x ELSE x

\* Math.round of the non-negative quotient p / q.
RoundDiv(p, q) == (2 * p + q) \div (2 * q)

\* Object.values(breakdown).map(b => b.signal): the signal types of the
\* contributors among the first n entries of AGENT_WEIGHTS, in table order.
RECURSIVE BreakdownSignals(_, _, _)
BreakdownSignals(sigs, now, n) ==
    IF n = 0 THEN << >>
    ELSE LET sig == SignalOf(sigs, WeightNames[n])
             rest == BreakdownSignals(sigs, now, n - 1)
         IN  IF Contributes(sig, now) THEN Append(rest, sig.type) ELSE rest

\* signals.filter(v => v === a).length
Occurrences(list, a) == Cardinality({ i \in DOMAIN list : list[i] = a })

\* calculateAgreement(breakdown): the stable sort by ascending number of
\* occurrences leaves last, for pop(), the latest of the entries that occur
\* most often; the share of the entries equal to it is rounded to a percent.
calculateAgreementMutant(list) ==
    LET least == CHOOSE i \in DOMAIN list :
                    \A j \in DOMAIN list :
                       Occurrences(list, list[i]) <= Occurrences(list, list[j])
    IN  RoundDiv(100 * Occurrences(list, list[least]), Len(list))
calculateAgreement(list) ==
    LET top == { i \in DOMAIN list :
                    \A j \in DOMAIN list :
                       Occurrences(list, list[i]) >= Occurrences(list, list[j]) }
        last == CHOOSE i \in top : \A j \in top : j <= i
        mode == list[last]
    IN  RoundDiv(100 * Occurrences(list, mode), Len(list))

\* computeConfluenceScore(): consensus, strength and the sums it rests on.
\* normalizedScore = weightedSum / totalWeight, that is sums.weightedSum /
\* (100 * sums.totalWeight); the thresholds are +-0.15.
computeConfluenceScore(sigs, now) ==
    LET sums == ConfluenceSums(sigs, now, Len(WeightNames))
    IN  IF sums.totalWeight = 0
        THEN [consensus |-> "HOLD", strength |-> 0, agentCount |-> 0,
              weightedSum |-> 0, totalWeight |-> 0, agreement |-> 0,
              breakdown |-> sums.breakdown]
        ELSE [consensus |->
                 IF 100 * sums.weightedSum > 15 * 100 * sums.totalWeight THEN "BUY"
                 ELSE IF 100 * sums.weightedSum < -15 * 100 * sums.totalWeight THEN "SELL"
                 ELSE "HOLD",
              strength |-> Min(95, RoundDiv(Abs(sums.weightedSum), sums.totalWeight)),
              agentCount |-> sums.agentCount,
              weightedSum |-> sums.weightedSum,
              totalWeight |-> sums.totalWeight,
              agreement |->
                 IF sums.agentCount >= 3
                 THEN calculateAgreement(BreakdownSignals(sigs, now, Len(WeightNames)))
                 ELSE 0,
              breakdown |-> sums.breakdown]

\* The hub after module load, under a workload the environment will send.
InitHubState(quota, ticks, bodies) ==
    /\ hubNow = 0
    /\ hubAgents = [n \in NamesOf(bodies) |-> NoHeartbeat]
    /\ signals = << >>
    /\ agentSignals = [n \in NamesOf(bodies) |-> NoSignal]
    /\ whaleAlerts = << >>
    /\ tokenLaunches = << >>
    /\ mevOpportunities = << >>
    /\ gasUpdates = << >>
    /\ emitted = [ev \in Events |-> << >>]
    /\ lastResponse = NoResponse
    /\ hubQuota = quota
    /\ hubTicksLeft = ticks
    /\ hubBodies = bodies
    /\ signalSteps = << >>

\* A mixed workload: a few signals and heartbeats while the clock advances.
MixedQuota ==
    [e \in Endpoints |->
        IF e = "signal" THEN MaxSignalPosts ELSE IF e = "heartbeat" THEN 1 ELSE 0]

\* A flood of one ring: more requests than its cap, within one millisecond.
FloodQuota(r) == [e \in Endpoints |-> IF e = r THEN RingCap(r) + MaxOver ELSE 0]

\* Every one of four agents may post once, within a clock step or two.
FourQuota ==
    [e \in Endpoints |-> IF e = "signal" THEN Cardinality(FourBodies) ELSE 0]

InitHub ==
    \/ InitHubState(MixedQuota, MaxHubTicks, MixedBodies)
    \/ InitHubState(FourQuota, 1, FourBodies)

\* Bound of the model: the POSTs to one ring in a run that mixes two rings.
MaxRingPosts == 2

\* Two bodies that differ, posted to two rings in any interleaving.
OrderBodies ==
    { Body("Trading Oracle v3.0", "BUY", 80), Body("Market Analyzer v3.0", "HOLD", 50) }

OrderQuota(r1, r2) == [e \in Endpoints |-> IF e \in {r1, r2} THEN MaxRingPosts ELSE 0]

\* Signals of three agents, two of which agree; the handler accepts any
\* confidence, so one of them is beyond 100.
ConsensusBodies ==
    { Body("Trading Oracle v3.0", "BUY", 250),
      Body("Market Analyzer v3.0", "BUY", 50),
      Body("Prediction Bot v3.0", "SELL", 60) }

ConsensusQuota ==
    [e \in Endpoints |->
        IF e = "signal" THEN Cardinality(ConsensusBodies)
        ELSE IF e = "heartbeat" THEN 1 ELSE 0]

InitHubFlood ==
    \/ \E r \in Rings : InitHubState(FloodQuota(r), 0, FloodBodies)
    \/ \E r1, r2 \in Rings : InitHubState(OrderQuota(r1, r2), 0, OrderBodies)
    \/ InitHubState(ConsensusQuota, 0, ConsensusBodies)

ParkHub == InitHubState([e \in Endpoints |-> 0], 0, {})

\* The wall clock of the hub advances.
TickSteps == {1, SIGNAL_EXPIRY}

HubTick(d) ==
    /\ hubTicksLeft > 0
    /\ hubTicksLeft' = hubTicksLeft - 1
    /\ hubNow' = hubNow + d
    /\ UNCHANGED <<hubAgents, signals, agentSignals, whaleAlerts, tokenLaunches,
                   mevOpportunities, gasUpdates, emitted, lastResponse, hubQuota,
                   hubBodies>>
    /\ UNCHANGED signalSteps
    /\ UNCHANGED notHub

\* One request to endpoint e is taken from the workload.
Spend(e) ==
    /\ hubQuota[e] > 0
    /\ hubQuota' = [hubQuota EXCEPT ![e] = @ - 1]
    /\ UNCHANGED <<hubTicksLeft, hubBodies>>

\* io.emit(event, payload)
EmitMutant(event, payload) == emitted' = [emitted EXCEPT ![event] = <<payload>> \o @]
Emit(event, payload) == emitted' = [emitted EXCEPT ![event] = Append(@, payload)]

\* if (!agentName) return res.status(400)...
MissingNameMutant(data) == data.agentName = "none"
MissingName(data) == data.agentName = ""

BadRequest == [status |-> 400, kind |-> "error"]

Ok == [status |-> 200, kind |-> "ok"]

\* app.post('/api/agent/heartbeat')
PostHeartbeat(data) ==
    /\ Spend("heartbeat")
    /\ IF MissingName(data)
       THEN /\ lastResponse' = BadRequest
            /\ UNCHANGED <<hubAgents, emitted>>
       ELSE /\ hubAgents' = [hubAgents EXCEPT ![data.agentName] =
                  [status |-> "RUNNING", uptime |-> 0, lastHeartbeat |-> hubNow]]
            /\ Emit("agent:heartbeat", data)
            /\ lastResponse' = Ok
    /\ UNCHANGED <<hubNow, signals, agentSignals, whaleAlerts, tokenLaunches,
                   mevOpportunities, gasUpdates>>
    /\ UNCHANGED signalSteps
    /\ UNCHANGED notHub

\* The agents that call startHeartbeat(agentId).
HeartbeatClients == {"mev-bot", "gas-optimizer"}

\* JSON.stringify({ agentId }): the body sendHeartbeat(agentId) posts.
HeartbeatBody(agentId) == [agentId |-> agentId]

\* const { agentName, ... } = req.body: an absent field reads as undefined,
\* here the empty string.
AgentNameOf(body) == IF "agentName" \in DOMAIN body THEN body.agentName ELSE ""

\* sendHeartbeat(agentId) of the hub client, served by the heartbeat endpoint.
SendHeartbeat(agentId) ==
    PostHeartbeat([agentName |-> AgentNameOf(HeartbeatBody(agentId))])

\* The statements of the signal handler after the name check, in program
\* order: the values of state.signals, state.agentSignals and the broadcasts
\* of 'signal' after each of them.
SignalHandlerStepsMutant(data, now) ==
    LET s0 == [ring |-> signals, latest |-> agentSignals, sent |-> emitted["signal"]]
        s1 == [s0 EXCEPT !.latest[data.agentName] = Stamp(data, now)]
        s2 == [s1 EXCEPT !.ring = addToList(signals, data, MAX_ITEMS, now)]
        s3 == [s2 EXCEPT !.sent = Append(@, data)]
    IN  <<s1, s2, s3>>
SignalHandlerSteps(data, now) ==
    LET s0 == [ring |-> signals, latest |-> agentSignals, sent |-> emitted["signal"]]
        s1 == [s0 EXCEPT !.ring = addToList(signals, data, MAX_ITEMS, now)]
        s2 == [s1 EXCEPT !.latest[data.agentName] = Stamp(data, now)]
        s3 == [s2 EXCEPT !.sent = Append(@, data)]
    IN  <<s1, s2, s3>>

\* What a step of the handler has done: appended to the ring, left the new
\* signal in agentSignals, broadcast it.
Done(step, data, now) ==
    [appended |-> step.ring # signals,
     overwritten |-> step.latest[data.agentName] = Stamp(data, now),
     broadcast |-> step.sent # emitted["signal"]]

\* app.post('/api/signal')
PostSignal(data) ==
    /\ Spend("signal")
    /\ IF MissingName(data)
       THEN /\ lastResponse' = BadRequest
            /\ UNCHANGED <<signals, agentSignals, emitted, signalSteps>>
       ELSE LET steps == SignalHandlerSteps(data, hubNow)
            IN  /\ signals' = steps[3].ring
                /\ agentSignals' = steps[3].latest
                /\ emitted' = [emitted EXCEPT !["signal"] = steps[3].sent]
                /\ signalSteps' = [i \in 1..3 |-> Done(steps[i], data, hubNow)]
                /\ lastResponse' = Ok
    /\ UNCHANGED <<hubNow, hubAgents, whaleAlerts, tokenLaunches, mevOpportunities,
                   gasUpdates>>
    /\ UNCHANGED notHub

\* app.post('/api/token/launch')
PostLaunch(data) ==
    /\ Spend("launch")
    /\ tokenLaunches' = addToList(tokenLaunches, data, MAX_ALERTS, hubNow)
    /\ Emit("token:launch", data)
    /\ lastResponse' = Ok
    /\ UNCHANGED <<hubNow, hubAgents, signals, agentSignals, whaleAlerts,
                   mevOpportunities, gasUpdates>>
    /\ UNCHANGED signalSteps
    /\ UNCHANGED notHub

\* app.post('/api/mev/opportunity')
PostMev(data) ==
    /\ Spend("mev")
    /\ mevOpportunities' = addToList(mevOpportunities, data, MAX_ALERTS, hubNow)
    /\ Emit("mev:opportunity", data)
    /\ lastResponse' = Ok
    /\ UNCHANGED <<hubNow, hubAgents, signals, agentSignals, whaleAlerts,
                   tokenLaunches, gasUpdates>>
    /\ UNCHANGED signalSteps
    /\ UNCHANGED notHub

\* app.post('/api/gas/update')
PostGas(data) ==
    /\ Spend("gas")
    /\ gasUpdates' = addToList(gasUpdates, data, MAX_ALERTS, hubNow)
    /\ Emit("gas:update", data)
    /\ lastResponse' = Ok
    /\ UNCHANGED <<hubNow, hubAgents, signals, agentSignals, whaleAlerts,
                   tokenLaunches, mevOpportunities>>
    /\ UNCHANGED signalSteps
    /\ UNCHANGED notHub

\* app.post('/api/whale/alert')
PostWhale(data) ==
    /\ Spend("whale")
    /\ whaleAlerts' = addToList(whaleAlerts, data, MAX_ALERTS, hubNow)
    /\ Emit("whale:alert", data)
    /\ lastResponse' = Ok
    /\ UNCHANGED <<hubNow, hubAgents, signals, agentSignals, tokenLaunches,
                   mevOpportunities, gasUpdates>>
    /\ UNCHANGED signalSteps
    /\ UNCHANGED notHub

\* app.get('/api/state'): the fields of the response that depend on the
\* signals and the rings.
GetState ==
    /\ lastResponse' =
          [status |-> 200, kind |-> "state", at |-> hubNow,
           confluence |-> computeConfluenceScore(agentSignals, hubNow),
           totalSignals |-> Len(signals),
           totalAlerts |-> Len(whaleAlerts),
           totalLaunches |-> Len(tokenLaunches),
           totalMev |-> Len(mevOpportunities),
           recentSignals |-> Slice(signals, 10),
           recentAlerts |-> Slice(whaleAlerts, 10)]
    /\ UNCHANGED <<hubNow, hubAgents, signals, agentSignals, whaleAlerts, tokenLaunches,
                   mevOpportunities, gasUpdates, emitted, hubQuota, hubTicksLeft,
                   hubBodies>>
    /\ UNCHANGED signalSteps
    /\ UNCHANGED notHub

\* The hub serving signals, heartbeats and state requests over time.
NextHub ==
    \/ \E d \in TickSteps : HubTick(d)
    \/ \E data \in hubBodies : PostHeartbeat(data)
    \/ \E data \in hubBodies : PostSignal(data)
    \/ GetState

\* The hub serving the five ring endpoints and the heartbeats of the hub
\* client.
NextHubIngress ==
    \/ \E agentId \in HeartbeatClients : SendHeartbeat(agentId)
    \/ \E data \in hubBodies : PostSignal(data)
    \/ \E data \in hubBodies : PostLaunch(data)
    \/ \E data \in hubBodies : PostMev(data)
    \/ \E data \in hubBodies : PostGas(data)
    \/ \E data \in hubBodies : PostWhale(data)
    \/ GetState

(***************************************************************************)
(*                PREDICTION AGENT  (prediction-bot/index.js)              *)
(***************************************************************************)

\* Bounds of the model: runPrediction() calls (main()'s and the timer's) and
\* steps of the clock.
MaxPredTicks == 3
MaxPredClock == 2

PREDICTION_INTERVAL == 900000
PREDICTION_HORIZONS == <<5, 15, 60>>
HISTORY_SIZE == 300
MIN_CONFIDENCE == 55

\* priceHistory.length when main() has collected its data points.
PrimedHistory == 80

\* Prices a read of the Lens contract gives, in 1e-9 MON.
PredPrices == {19190}

\* Prices generateDemoPrice() returns: the last price moved by its trend and
\* noise. It is 1% below the Lens price.
DemoPrices == {19000}

\* What the clock advances by between two events.
PredClockSteps == {5 * 60 * 1000, PREDICTION_INTERVAL}

PredTickIds == 1..MaxPredTicks

\* The frame of a runPrediction() call: where it stands, verifyPendingPredictions'
\* now, toVerify and loop position, whether the fetchPrice() it waits for went to
\* the network, and newPredictions.
IdleTick ==
    [pc |-> "idle", now |-> 0, toVerify |-> <<>>, idx |-> 0, io |-> FALSE,
     newPredictions |-> <<>>]

\* What the networks and the technical boost make of the history: direction and
\* confidence for the 5, 15 and 60 minute horizons.
Forecast(direction, confidence) == [direction |-> direction, confidence |-> confidence]

Forecasts ==
    { <<Forecast("UP", 70), Forecast("UP", 70), Forecast("DOWN", 60)>>,
      <<Forecast("SIDEWAYS", 52), Forecast("DOWN", 47), Forecast("SIDEWAYS", 58)>> }

\* generatePredictions(): one object per horizon, or the placeholder (without
\* currentPrice and targetTime) while the history is shorter than 50.
generatePredictions(histLen, current, now, forecast) ==
    IF histLen < 50
    THEN << [direction |-> "SIDEWAYS", confidence |-> 30, horizon |-> 5,
             hasTarget |-> FALSE, currentPrice |-> 0, targetTime |-> 0,
             verified |-> FALSE, actualPrice |-> 0, correct |-> FALSE] >>
    ELSE [ i \in 1..Len(PREDICTION_HORIZONS) |->
             [direction |-> forecast[i].direction,
              confidence |-> forecast[i].confidence,
              horizon |-> PREDICTION_HORIZONS[i],
              hasTarget |-> TRUE,
              currentPrice |-> current,
              targetTime |-> now + PREDICTION_HORIZONS[i] * 60 * 1000,
              verified |-> FALSE, actualPrice |-> 0, correct |-> FALSE] ]

\* pendingPredictions.filter(p => p.targetTime <= now); undefined <= now is false.
DuePredictions(heap, pending, now) ==
    SelectSeq(pending, LAMBDA p : heap[p].hasTarget /\ heap[p].targetTime <= now)

\* pendingPredictions.filter(p => !p.verified)
UnverifiedMutant(heap, pending) == pending
Unverified(heap, pending) == SelectSeq(pending, LAMBDA p : ~heap[p].verified)

\* change = (actualPrice - pred.currentPrice) / pred.currentPrice against 0.005.
ActualDirection(actualPrice, currentPrice) ==
    IF 1000 * (actualPrice - currentPrice) > 5 * currentPrice THEN "UP"
    ELSE IF 1000 * (actualPrice - currentPrice) < -5 * currentPrice THEN "DOWN"
    ELSE "SIDEWAYS"

\* expectedDirection === actualDirection ||
\*   (expectedDirection === 'SIDEWAYS' && Math.abs(change) < 0.01)
IsCorrect(pred, actualPrice) ==
    \/ pred.direction = ActualDirection(actualPrice, pred.currentPrice)
    \/ /\ pred.direction = "SIDEWAYS"
       /\ 100 * Abs(actualPrice - pred.currentPrice) < pred.currentPrice

\* performance.accuracy after the counters changed.
Accuracy(correct, incorrect, old) ==
    IF correct + incorrect > 0 THEN (correct * 100) \div (correct + incorrect) ELSE old

InitPredState(canPost, demo, clock) ==
    /\ predNow = 0
    /\ predClockLeft = clock
    /\ predTimerDue = -1
    /\ predCanPost = canPost
    /\ demoMode = demo
    /\ lastRealPrice = 19000
    /\ priceHistoryLen = PrimedHistory
    /\ predHeap = <<>>
    /\ pendingPredictions = <<>>
    /\ verifiedPredictions = <<>>
    /\ perfCorrect = 0
    /\ perfIncorrect = 0
    /\ perfAccuracy = 0
    /\ totalPredictions = 0
    /\ currentPredictions = <<>>
    /\ predTicks = [t \in PredTickIds |-> IdleTick]
    /\ predTally = <<>>

\* main() up to its first runPrediction(): the wallet may or may not be usable,
\* and a failed read while collecting the history has switched demo mode on.
InitPred ==
    \E canPost \in BOOLEAN, demo \in BOOLEAN : InitPredState(canPost, demo, MaxPredClock)

ParkPred == InitPredState(FALSE, FALSE, 0)

\* A tick waits for a fetchPrice() that returned without leaving the process
\* (demo mode): its continuation is a microtask and runs before any timer or
\* network callback.
SyncPending(u) == predTicks[u].pc \in {"verifyFetch", "priceFetch"} /\ ~predTicks[u].io

\* Tick t may take its next step: no other tick holds the microtask queue.
PredRunnable(t) == \A u \in PredTickIds \ {t} : ~SyncPending(u)

\* The results a pending fetchPrice() can settle with: a Lens read (ok), or the
\* demo price after a failed read or in demo mode.
FetchOutcomes(io) ==
    IF io THEN [ok : {TRUE}, price : PredPrices] \cup [ok : {FALSE}, price : DemoPrices]
    ELSE [ok : {FALSE}, price : DemoPrices]

\* fetchPrice(): what the call leaves in the module's state.
FetchPriceSettles(out) ==
    /\ demoMode' = (demoMode \/ ~out.ok)
    /\ lastRealPrice' = out.price

\* main() arms the timer when its own runPrediction() has returned.
TimerAfter(t) == IF t = 1 THEN predNow + PREDICTION_INTERVAL ELSE predTimerDue

\* The end of verifyPendingPredictions() and runPrediction()'s call of
\* fetchPrice(): drop the verified entries, refresh the accuracy, wait.
VerifyDone(t, heap, correct, incorrect, demo) ==
    /\ pendingPredictions' = Unverified(heap, pendingPredictions)
    /\ perfAccuracy' = Accuracy(correct, incorrect, perfAccuracy)
    /\ predTicks' = [predTicks EXCEPT ![t].pc = "priceFetch", ![t].io = ~demo]

\* runPrediction() begins: main()'s first call, or the timer's callback. It runs
\* verifyPendingPredictions() up to its first await.
PredTickStart(t) ==
    /\ predTicks[t].pc = "idle"
    /\ \A u \in PredTickIds : u < t => predTicks[u].pc # "idle"
    /\ PredRunnable(t)
    /\ IF t = 1 THEN predTimerDue' = predTimerDue
       ELSE /\ predTimerDue >= 0
            /\ predNow >= predTimerDue
            /\ predTimerDue' = predTimerDue + PREDICTION_INTERVAL
    /\ LET toVerify == DuePredictions(predHeap, pendingPredictions, predNow) IN
         IF toVerify # <<>>
         THEN /\ predTicks' = [predTicks EXCEPT ![t] =
                    [pc |-> "verifyFetch", now |-> predNow, toVerify |-> toVerify,
                     idx |-> 1, io |-> ~demoMode, newPredictions |-> <<>>]]
              /\ UNCHANGED <<pendingPredictions, perfAccuracy>>
         ELSE /\ pendingPredictions' = Unverified(predHeap, pendingPredictions)
              /\ perfAccuracy' = Accuracy(perfCorrect, perfIncorrect, perfAccuracy)
              /\ predTicks' = [predTicks EXCEPT ![t] =
                    [pc |-> "priceFetch", now |-> predNow, toVerify |-> <<>>,
                     idx |-> 0, io |-> ~demoMode, newPredictions |-> <<>>]]
    /\ UNCHANGED <<predNow, predClockLeft, predCanPost, demoMode, lastRealPrice,
                   priceHistoryLen, predHeap, verifiedPredictions, perfCorrect,
                   perfIncorrect, totalPredictions, currentPredictions, predTally>>
    /\ UNCHANGED notPred

\* The fetchPrice() of the verification loop settles: count the outcome of
\* toVerify[idx], mark the object, push it to verifiedPredictions, and go round
\* the loop or leave it.
VerifyFetchSettles(t, out) ==
    /\ predTicks[t].pc = "verifyFetch"
    /\ PredRunnable(t)
    /\ out \in FetchOutcomes(predTicks[t].io)
    /\ FetchPriceSettles(out)
    /\ LET p == predTicks[t].toVerify[predTicks[t].idx]
           correct == IsCorrect(predHeap[p], out.price)
           heap == [predHeap EXCEPT ![p].verified = TRUE,
                                    ![p].actualPrice = out.price,
                                    ![p].correct = correct]
           nCorrect == IF correct THEN perfCorrect + 1 ELSE perfCorrect
           nIncorrect == IF correct THEN perfIncorrect ELSE perfIncorrect + 1
       IN
         /\ perfCorrect' = nCorrect
         /\ perfIncorrect' = nIncorrect
         /\ predHeap' = heap
         /\ verifiedPredictions' = Append(verifiedPredictions, p)
         /\ predTally' = [predTally EXCEPT ![p] = @ + 1]
         /\ IF predTicks[t].idx < Len(predTicks[t].toVerify)
            THEN /\ predTicks' = [predTicks EXCEPT ![t].idx = @ + 1,
                                                   ![t].io = ~demoMode']
                 /\ UNCHANGED <<pendingPredictions, perfAccuracy>>
            ELSE VerifyDone(t, heap, nCorrect, nIncorrect, demoMode')
    /\ UNCHANGED <<predNow, predClockLeft, predTimerDue, predCanPost,
                   priceHistoryLen, totalPredictions, currentPredictions>>
    /\ UNCHANGED notPred

\* newPredictions.find(p => p.direction !== 'SIDEWAYS' && p.confidence >= MIN_CONFIDENCE):
\* the position of the best prediction, 0 when there is none.
BestPred(preds) ==
    LET good == { i \in DOMAIN preds : /\ preds[i].direction # "SIDEWAYS"
                                       /\ preds[i].confidence >= MIN_CONFIDENCE }
    IN IF good = {} THEN 0 ELSE CHOOSE i \in good : \A j \in good : i <= j

\* postPredictionOnChain() sends a transaction: a wallet, a registered agent and
\* a confidence of at least MIN_CONFIDENCE.
PostsOnChain(pred) == predCanPost /\ pred.confidence >= MIN_CONFIDENCE

\* runPrediction()'s own fetchPrice() settles: extend the history, generate the
\* predictions, add them to pending, and post the best one or return.
PriceFetchSettles(t, out, forecast) ==
    /\ predTicks[t].pc = "priceFetch"
    /\ PredRunnable(t)
    /\ out \in FetchOutcomes(predTicks[t].io)
    /\ FetchPriceSettles(out)
    /\ LET histLen == Min(priceHistoryLen + 1, HISTORY_SIZE)
           new == generatePredictions(histLen, out.price, predNow, forecast)
           ids == [i \in 1..Len(new) |-> Len(predHeap) + i]
           best == BestPred(new)
       IN
         /\ priceHistoryLen' = histLen
         /\ totalPredictions' = totalPredictions + Len(new)
         /\ predHeap' = predHeap \o new
         /\ predTally' = predTally \o [i \in 1..Len(new) |-> 0]
         /\ pendingPredictions' = pendingPredictions \o ids
         /\ IF best # 0 /\ PostsOnChain(new[best])
            THEN /\ predTicks' = [predTicks EXCEPT ![t].pc = "post", ![t].io = TRUE,
                                                   ![t].newPredictions = ids]
                 /\ UNCHANGED <<currentPredictions, predTimerDue>>
            ELSE /\ predTicks' = [predTicks EXCEPT ![t].pc = "done",
                                                   ![t].newPredictions = ids]
                 /\ currentPredictions' = ids
                 /\ predTimerDue' = TimerAfter(t)
    /\ UNCHANGED <<predNow, predClockLeft, predCanPost, verifiedPredictions,
                   perfCorrect, perfIncorrect, perfAccuracy>>
    /\ UNCHANGED notPred

\* postPredictionOnChain() settles, with a hash or with false: runPrediction()
\* publishes its predictions and returns.
PostSettles(t) ==
    /\ predTicks[t].pc = "post"
    /\ PredRunnable(t)
    /\ predTicks' = [predTicks EXCEPT ![t].pc = "done"]
    /\ currentPredictions' = predTicks[t].newPredictions
    /\ predTimerDue' = TimerAfter(t)
    /\ UNCHANGED <<predNow, predClockLeft, predCanPost, demoMode, lastRealPrice,
                   priceHistoryLen, predHeap, pendingPredictions,
                   verifiedPredictions, perfCorrect, perfIncorrect, perfAccuracy,
                   totalPredictions, predTally>>
    /\ UNCHANGED notPred

\* Time passes while the process waits for the network or for its timer. The
\* timer fires when it is due: the clock does not run past it while a tick is
\* left to start.
PredClock(d) ==
    /\ predClockLeft > 0
    /\ \A u \in PredTickIds : ~SyncPending(u)
    /\ \/ predTimerDue < 0
       \/ predNow + d <= predTimerDue
       \/ \A u \in PredTickIds : predTicks[u].pc # "idle"
    /\ predNow' = predNow + d
    /\ predClockLeft' = predClockLeft - 1
    /\ UNCHANGED <<predTimerDue, predCanPost, demoMode, lastRealPrice,
                   priceHistoryLen, predHeap, pendingPredictions,
                   verifiedPredictions, perfCorrect, perfIncorrect, perfAccuracy,
                   totalPredictions, currentPredictions, predTicks, predTally>>
    /\ UNCHANGED notPred

NextPred ==
    \/ \E t \in PredTickIds : PredTickStart(t)
    \/ \E t \in PredTickIds : \E out \in FetchOutcomes(TRUE) :
          VerifyFetchSettles(t, out)
    \/ \E t \in PredTickIds : \E out \in FetchOutcomes(TRUE) :
          \E forecast \in Forecasts : PriceFetchSettles(t, out, forecast)
    \/ \E t \in PredTickIds : PostSettles(t)
    \/ \E d \in PredClockSteps : PredClock(d)


(***************************************************************************)
(*       TRANSFER-LOG SCANNER  (whale observer, unnamed/part_008)          *)
(***************************************************************************)

\* Bound of the model: runWhaleAnalysis() calls (main()'s and the timer's).
MaxScanTicks == 3

LOOKBACK_BLOCKS == 500
MIN_TRANSFER_DUCK == 1000000

\* Block numbers getBlockNumber() reports: a young chain, and heads beyond the
\* lookback window.
ScanHeads == {100, 600, 650}

ScanWallets == {"0xa", "0xb"}

\* Transfer logs getLogs() returns for a range: none, or a large transfer
\* followed by a small one.
Transfer(from, to, value) == [from |-> from, to |-> to, value |-> value]

LogBatches ==
    { <<>>, <<Transfer("0xa", "0xb", 2 * MIN_TRANSFER_DUCK), Transfer("0xb", "0xa", 10)>> }

ScanTickIds == 1..MaxScanTicks

\* The frame of a runWhaleAnalysis() call: where it stands, scanTransferEvents'
\* fromBlock and toBlock, and the whale transfers still to be announced.
IdleScan == [pc |-> "idle", fromBlock |-> 0, toBlock |-> 0, alerts |-> 0]

NoWallet == [totalIn |-> 0, totalOut |-> 0, netFlow |-> 0, txCount |-> 0, profile |-> "NONE"]

InitScan ==
    /\ lastScannedBlock = 0
    /\ transfersScanned = 0
    /\ scanWhaleAlerts = 0
    /\ trackedWallets = [w \in ScanWallets |-> NoWallet]
    /\ scanTimerArmed = FALSE
    /\ scanTicks = [t \in ScanTickIds |-> IdleScan]
    /\ scanLog = <<>>

ParkScan == InitScan


\* classifyWalletProfile(): ratio = totalIn / (totalOut || 1) against 2 and 0.5.
classifyWalletProfile(wallet) ==
    LET out1 == IF wallet.totalOut = 0 THEN 1 ELSE wallet.totalOut IN
    IF wallet.txCount <= 1 THEN "NEW"
    ELSE IF wallet.totalIn > 0 /\ wallet.totalOut = 0 THEN "ACCUMULATOR"
    ELSE IF wallet.totalOut > 0 /\ wallet.totalIn = 0 THEN "DISTRIBUTOR"
    ELSE IF wallet.totalIn > 2 * out1 THEN "ACCUMULATOR"
    ELSE IF 2 * wallet.totalIn < out1 THEN "DISTRIBUTOR"
    ELSE IF wallet.txCount > 5 THEN "TRADER"
    ELSE "MIXED"

\* trackWallet(address, balanceChange) on the map of tallies.
trackWallet(wallets, address, balanceChange) ==
    LET existing == wallets[address]
        moved == [existing EXCEPT
                    !.totalIn = IF balanceChange > 0 THEN @ + balanceChange ELSE @,
                    !.totalOut = IF balanceChange > 0 THEN @ ELSE @ + Abs(balanceChange)]
        counted == [moved EXCEPT !.netFlow = moved.totalIn - moved.totalOut,
                                 !.txCount = @ + 1]
    IN [wallets EXCEPT ![address] = [counted EXCEPT !.profile = classifyWalletProfile(counted)]]

\* The loop of scanTransferEvents() over the first n logs: the tallies after it.
RECURSIVE TrackAll(_, _, _)
TrackAll(wallets, logs, n) ==
    IF n = 0 THEN wallets
    ELSE LET before == TrackAll(wallets, logs, n - 1)
             l == logs[n]
         IN IF l.value >= MIN_TRANSFER_DUCK
            THEN trackWallet(trackWallet(before, l.from, -l.value), l.to, l.value)
            ELSE before

\* whaleTransfers.length
WhaleCount(logs) == Cardinality({ i \in DOMAIN logs : logs[i].value >= MIN_TRANSFER_DUCK })

\* lastScannedBlock after the first-run test of scanTransferEvents().
FirstRun(last, currentBlock) ==
    IF last = 0 THEN currentBlock - LOOKBACK_BLOCKS ELSE last

\* runWhaleAnalysis() returns; main() arms the timer after its own call.
ScanReturns(t) ==
    /\ scanTicks' = [scanTicks EXCEPT ![t].pc = "done"]
    /\ scanTimerArmed' = (scanTimerArmed \/ t = 1)

\* runWhaleAnalysis() begins, called by main() or by the timer: scanTransferEvents()
\* asks for the block number.
ScanTickStart(t) ==
    /\ scanTicks[t].pc = "idle"
    /\ \A u \in ScanTickIds : u < t => scanTicks[u].pc # "idle"
    /\ t = 1 \/ scanTimerArmed
    /\ scanTicks' = [scanTicks EXCEPT ![t].pc = "blockNumber"]
    /\ UNCHANGED <<lastScannedBlock, transfersScanned, scanWhaleAlerts,
                   trackedWallets, scanTimerArmed, scanLog>>
    /\ UNCHANGED notScan

\* getBlockNumber() settles. A failure is caught and the scan returns nothing;
\* otherwise the cursor is initialised on the first run and the range is fixed.
GetBlockNumberSettles(t, ok, currentBlock) ==
    /\ scanTicks[t].pc = "blockNumber"
    /\ IF ~ok
       THEN /\ ScanReturns(t)
            /\ UNCHANGED lastScannedBlock
       ELSE LET last == FirstRun(lastScannedBlock, currentBlock) IN
            /\ lastScannedBlock' = last
            /\ IF currentBlock <= last
               THEN ScanReturns(t)
               ELSE /\ scanTicks' = [scanTicks EXCEPT ![t].pc = "getLogs",
                                                      ![t].fromBlock = last + 1,
                                                      ![t].toBlock = currentBlock]
                    /\ UNCHANGED scanTimerArmed
    /\ UNCHANGED <<transfersScanned, scanWhaleAlerts, trackedWallets, scanLog>>
    /\ UNCHANGED notScan

\* getLogs() settles. A request for a negative block number cannot succeed. On
\* success the cursor moves to toBlock and the large transfers are tallied and
\* then announced one by one.
GetLogsSettles(t, ok, logs) ==
    /\ scanTicks[t].pc = "getLogs"
    /\ scanTicks[t].fromBlock < 0 => ~ok
    /\ IF ~ok
       THEN /\ ScanReturns(t)
            /\ UNCHANGED <<lastScannedBlock, transfersScanned, trackedWallets, scanLog>>
       ELSE /\ lastScannedBlock' = scanTicks[t].toBlock
            /\ transfersScanned' = transfersScanned + Len(logs)
            /\ trackedWallets' = TrackAll(trackedWallets, logs, Len(logs))
            /\ scanLog' = Append(scanLog, [fromBlock |-> scanTicks[t].fromBlock,
                                           toBlock |-> scanTicks[t].toBlock])
            /\ IF WhaleCount(logs) > 0
               THEN /\ scanTicks' = [scanTicks EXCEPT ![t].pc = "alert",
                                                      ![t].alerts = WhaleCount(logs)]
                    /\ UNCHANGED scanTimerArmed
               ELSE ScanReturns(t)
    /\ UNCHANGED scanWhaleAlerts
    /\ UNCHANGED notScan

\* postWhaleAlert() settles for one transfer of the batch.
WhaleAlertSettles(t) ==
    /\ scanTicks[t].pc = "alert"
    /\ scanWhaleAlerts' = scanWhaleAlerts + 1
    /\ IF scanTicks[t].alerts > 1
       THEN /\ scanTicks' = [scanTicks EXCEPT ![t].alerts = @ - 1]
            /\ UNCHANGED scanTimerArmed
       ELSE /\ scanTicks' = [scanTicks EXCEPT ![t].pc = "done", ![t].alerts = 0]
            /\ scanTimerArmed' = (scanTimerArmed \/ t = 1)
    /\ UNCHANGED <<lastScannedBlock, transfersScanned, trackedWallets, scanLog>>
    /\ UNCHANGED notScan

NextScan ==
    \/ \E t \in ScanTickIds : ScanTickStart(t)
    \/ \E t \in ScanTickIds : \E ok \in BOOLEAN : \E head \in ScanHeads :
          GetBlockNumberSettles(t, ok, head)
    \/ \E t \in ScanTickIds : \E ok \in BOOLEAN : \E logs \in LogBatches :
          GetLogsSettles(t, ok, logs)
    \/ \E t \in ScanTickIds : WhaleAlertSettles(t)


(***************************************************************************)
(*                  PRICE SERVICE  (unnamed/part_006)                      *)
(***************************************************************************)

\* Bounds of the model: fetchPrice() calls and steps of the clock.
MaxPriceCalls == 2
MaxPriceClock == 2

CACHE_TTL == 5000

\* The tracked token and another token.
Tokens == {"DUCK", "OTHER"}

PriceCallIds == 1..MaxPriceCalls

NoData == [price |-> 0, timestamp |-> -1, source |-> "none"]

NoCache == [data |-> NoData, timestamp |-> 0]

IdleCall == [pc |-> "idle", token |-> "", startedAt |-> 0, startSeq |-> 0, quote |-> -1]

InitPriceState(clock, workload) ==
    /\ dexWorkload = workload
    /\ priceNow = 0
    /\ priceClockLeft = clock
    /\ caches = [a \in Tokens |-> NoCache]
    /\ lastKnownPrice = 19000
    /\ priceCalls = [c \in PriceCallIds |-> IdleCall]
    /\ priceSeq = 0
    /\ priceLog = <<>>

\* A run in which DexScreener answers anything, and a run in which it always
\* answers with an empty pairs list.
InitPrice == \E workload \in {"any", "empty"} : InitPriceState(MaxPriceClock, workload)

ParkPrice == InitPriceState(0, "any")


\* What the clock advances by between two events.
PriceClockSteps == {2500}

\* A price sample, of its fields the ones the callers read; prices in 1e-9 MON.
Sample(price, timestamp, source, token) ==
    [price |-> price, timestamp |-> timestamp, source |-> source, tokenAddress |-> token]

\* fetchPrice() returned null.
NullResult == [price |-> 0, timestamp |-> -1, source |-> "null", tokenAddress |-> ""]

\* Responses of the DexScreener API: no pairs, two pairs of which the second has
\* the deeper liquidity, and one pair without a price.
Pair(liquidity, priceNative, priceUsd) ==
    [liquidity |-> liquidity, priceNative |-> priceNative, priceUsd |-> priceUsd]

DexResponses ==
    { <<>>, <<Pair(5, 21000, 3), Pair(10, 20000, 3)>>, <<Pair(10, 0, 0)>> }

\* What the DexScreener request of a run settles with: a response (ok) with
\* its pairs, or a failure.
DexAnswers(workload) ==
    IF workload = "empty" THEN {[ok |-> TRUE, pairs |-> << >>]}
    ELSE [ok : BOOLEAN, pairs : DexResponses]

\* Results of the Lens contract's getAmountOut, in DUCK per MON: nothing, a
\* plausible rate, and a rate that prices DUCK below 1e-7 MON.
LensReads == {0, 50000, 100000000}

\* data.pairs.sort(by liquidity, descending)[0]: the sort is stable.
BestPair(pairs) ==
    LET top == CHOOSE i \in DOMAIN pairs :
                 /\ \A j \in DOMAIN pairs : pairs[j].liquidity <= pairs[i].liquidity
                 /\ \A j \in DOMAIN pairs :
                       pairs[j].liquidity = pairs[i].liquidity => i <= j
    IN pairs[top]

\* parseFloat(pair.priceNative || pair.priceUsd || 0)
PriceNum(pair) == IF pair.priceNative # 0 THEN pair.priceNative ELSE pair.priceUsd

\* duckPerMon > 0 ? 1 / duckPerMon : _lastKnownPrice
PriceInMon(duckPerMon, lastKnown) ==
    IF duckPerMon > 0 THEN 1000000000 \div duckPerMon ELSE lastKnown

\* priceInMon < 0.0000001 || priceInMon > 1000
Anomalous(priceInMon) == priceInMon < 100 \/ priceInMon \div 1000000000 > 1000

IsDuck(token) == token = "DUCK"

\* cache.data && Date.now() - cache.timestamp < CACHE_TTL
CacheFreshMutant(cache, now) == cache.data # NoData /\ now - cache.timestamp > CACHE_TTL
CacheFresh(cache, now) == cache.data # NoData /\ now - cache.timestamp < CACHE_TTL

\* setCache(tokenAddress, data)
setCache(cs, token, data, now) == [cs EXCEPT ![token] = [data |-> data, timestamp |-> now]]

\* fetchPrice() returns: the call is logged with what it returned, whether
\* it stored the sample, the price the Lens quote came to (-1 without a quote)
\* and the cache entry that was there before.
PriceReturns(c, frame, seq, result, stored) ==
    /\ priceCalls' = [priceCalls EXCEPT ![c] = [frame EXCEPT !.pc = "done"]]
    /\ priceSeq' = seq + 1
    /\ priceLog' = Append(priceLog,
          [token |-> frame.token, startedAt |-> frame.startedAt,
           startSeq |-> frame.startSeq, doneSeq |-> seq + 1,
           result |-> result, stored |-> stored, quote |-> frame.quote,
           cached |-> caches[frame.token].data])

\* Method 3: the last known price, for DUCK only; otherwise null.
LastKnownResult(token) ==
    IF IsDuck(token) /\ lastKnownPrice > 0
    THEN Sample(lastKnownPrice, priceNow, "cached", token)
    ELSE NullResult

\* fetchPrice(tokenAddress) is called: a fresh cache entry is returned at once
\* with source 'cache'; otherwise the DexScreener request goes out.
FetchPriceCall(c, token) ==
    /\ priceCalls[c].pc = "idle"
    /\ \A u \in PriceCallIds : u < c => priceCalls[u].pc # "idle"
    /\ LET frame == [pc |-> "dex", token |-> token, startedAt |-> priceNow,
                     startSeq |-> priceSeq + 1, quote |-> -1]
           cache == caches[token]
       IN IF CacheFresh(cache, priceNow)
          THEN PriceReturns(c, frame, priceSeq + 1,
                            [cache.data EXCEPT !.source = "cache"], FALSE)
          ELSE /\ priceCalls' = [priceCalls EXCEPT ![c] = frame]
               /\ priceSeq' = priceSeq + 1
               /\ UNCHANGED priceLog
    /\ UNCHANGED <<priceNow, priceClockLeft, caches, lastKnownPrice>>
    /\ UNCHANGED dexWorkload
    /\ UNCHANGED notPrice

\* The DexScreener request settles: with a response (ok) or by throwing. A best
\* pair with a positive price is stored and returned; otherwise DUCK goes on to
\* the Lens contract and any other token gets null.
DexSettles(c, ok, pairs) ==
    /\ priceCalls[c].pc = "dex"
    /\ LET token == priceCalls[c].token
           priceNum == IF ok /\ pairs # <<>> THEN PriceNum(BestPair(pairs)) ELSE 0
           result == Sample(priceNum, priceNow, "DexScreener", token)
       IN IF priceNum > 0
          THEN /\ lastKnownPrice' = IF IsDuck(token) THEN priceNum ELSE lastKnownPrice
               /\ caches' = setCache(caches, token, result, priceNow)
               /\ PriceReturns(c, priceCalls[c], priceSeq, result, TRUE)
          ELSE /\ UNCHANGED <<lastKnownPrice, caches>>
               /\ IF IsDuck(token)
                  THEN /\ priceCalls' = [priceCalls EXCEPT ![c].pc = "lens"]
                       /\ UNCHANGED <<priceSeq, priceLog>>
                  ELSE PriceReturns(c, priceCalls[c], priceSeq, LastKnownResult(token), FALSE)
    /\ UNCHANGED <<priceNow, priceClockLeft>>
    /\ UNCHANGED dexWorkload
    /\ UNCHANGED notPrice

\* The Lens read settles: with a rate (ok) or by throwing. An anomalous price
\* and a failed read return the last known price, which is not stored.
LensSettles(c, ok, duckPerMon) ==
    /\ priceCalls[c].pc = "lens"
    /\ LET token == priceCalls[c].token
           priceInMon == PriceInMon(duckPerMon, lastKnownPrice)
           data == Sample(priceInMon, priceNow, "nad.fun Lens", token)
       IN IF ~ok
          THEN /\ PriceReturns(c, priceCalls[c], priceSeq, LastKnownResult(token), FALSE)
               /\ UNCHANGED <<lastKnownPrice, caches>>
          ELSE IF Anomalous(priceInMon)
          THEN /\ PriceReturns(c, [priceCalls[c] EXCEPT !.quote = priceInMon], priceSeq,
                               Sample(lastKnownPrice, priceNow, "cached", token), FALSE)
               /\ UNCHANGED <<lastKnownPrice, caches>>
          ELSE /\ lastKnownPrice' = priceInMon
               /\ caches' = setCache(caches, token, data, priceNow)
               /\ PriceReturns(c, [priceCalls[c] EXCEPT !.quote = priceInMon], priceSeq,
                               data, TRUE)
    /\ UNCHANGED <<priceNow, priceClockLeft>>
    /\ UNCHANGED dexWorkload
    /\ UNCHANGED notPrice

\* Time passes between the calls and while requests are pending.
PriceClock(d) ==
    /\ priceClockLeft > 0
    /\ priceNow' = priceNow + d
    /\ priceClockLeft' = priceClockLeft - 1
    /\ UNCHANGED <<caches, lastKnownPrice, priceCalls, priceSeq, priceLog>>
    /\ UNCHANGED dexWorkload
    /\ UNCHANGED notPrice

NextPrice ==
    \/ \E c \in PriceCallIds : \E token \in Tokens : FetchPriceCall(c, token)
    \/ \E c \in PriceCallIds : \E answer \in DexAnswers(dexWorkload) :
          DexSettles(c, answer.ok, answer.pairs)
    \/ \E c \in PriceCallIds : \E ok \in BOOLEAN : \E duckPerMon \in LensReads :
          LensSettles(c, ok, duckPerMon)
    \/ \E d \in PriceClockSteps : PriceClock(d)


(***************************************************************************)
(*                   TRADING AGENT (unnamed/part_013)                      *)
(*                                                                         *)
(* Scores are kept in units of 1/6000 so that every weight and every       *)
(* fraction of generateSignal is a whole number: 0.15 is 900 units.        *)
(***************************************************************************)

MaxTradTicks == 3    \* runAnalysis() calls the environment starts in a short run
MaxTradSlots == 2    \* runAnalysis() calls that may be in progress at once
MaxTradOver == 2     \* samples pushed past HISTORY_SIZE in a long run

TRAD_HISTORY_SIZE == 200
TRAD_MIN_CONFIDENCE == 60
MinPrices == 30
BuildHistoryCount == 50

\* Lengths buildHistory(50, ...) may deliver: it skips every failed sample.
TradPrimings == {MinPrices - 2, MinPrices - 1, BuildHistoryCount}

TradSample(price, volume) == [price |-> price, volume |-> volume]

\* priceData of fetchPrice(), here of the Lens fallback: a sample without a
\* volume, which runAnalysis() records as volume 0.
TradSamples == {TradSample(19000, 0)}

NoPriceData == [price |-> -1, volume |-> -1]

Indicators(rsi, macd, percentB, direction, strength, ichimoku, k, d, momentum, vwap) ==
    [rsi |-> rsi, macd |-> [histogram |-> macd, value |-> macd],
     bollinger |-> [percentB |-> percentB],
     trend |-> [direction |-> direction, strength |-> strength],
     ichimoku |-> [signal |-> ichimoku], stochasticRSI |-> [k |-> k, d |-> d],
     momentum |-> momentum, vwap |-> vwap]

\* What the indicators read on a long history, in three markets.
BullMarket == Indicators(15, 1, 5, "BULLISH", 80, "STRONG_BULLISH", 10, 10, 5, 20000)
BearMarket == Indicators(75, 0, 50, "NEUTRAL", 10, "BEARISH", 50, 50, 0, 19000)
DriftMarket == Indicators(50, 0, 50, "BULLISH", 50, "NEUTRAL", 50, 50, 0, 19000)

Markets == {BullMarket, BearMarket, DriftMarket}

\* The indicators of n prices: the ones that need more history than n fall
\* back to their neutral reading.
generateFullAnalysis(market, n) ==
    [market EXCEPT
        !.macd = IF n < 35 THEN [histogram |-> 0, value |-> 0] ELSE @,
        !.stochasticRSI = IF n < 31 THEN [k |-> 50, d |-> 50] ELSE @,
        !.ichimoku = IF n < 52 THEN [signal |-> "NEUTRAL"] ELSE @]

TradSignal(type, confidence, reason, price, indicators) ==
    [type |-> type, confidence |-> confidence, reason |-> reason, price |-> price,
     indicators |-> indicators, aiEnhanced |-> FALSE]

NoSig == TradSignal("none", 0, "", 0, "")

LastPrice(prices) == IF prices = <<>> THEN 0 ELSE prices[Len(prices)]

InsufficientData(prices) ==
    TradSignal("HOLD", 30, "Insufficient data", LastPrice(prices), "empty")

buyScore(a, currentPrice) ==
      (IF a.rsi < 30 THEN 40 * (60 - a.rsi) ELSE 0)
    + (IF a.macd.histogram > 0 /\ a.macd.value > 0 THEN 900 ELSE 0)
    + (IF a.bollinger.percentB < 10 THEN 900 ELSE 0)
    + (IF a.trend.direction = "BULLISH" THEN 9 * a.trend.strength ELSE 0)
    + (IF a.ichimoku.signal = "STRONG_BULLISH" THEN 600
       ELSE IF a.ichimoku.signal = "BULLISH" THEN 300 ELSE 0)
    + (IF a.stochasticRSI.k < 20 /\ a.stochasticRSI.d < 20 THEN 600 ELSE 0)
    + (IF a.momentum > 3 THEN 600 ELSE 0)
    + (IF a.vwap > 0 /\ currentPrice * 100 < a.vwap * 98 THEN 300 ELSE 0)

sellScore(a, currentPrice) ==
      (IF a.rsi > 70 THEN 40 * (a.rsi - 40) ELSE 0)
    + (IF a.macd.histogram < 0 /\ a.macd.value < 0 THEN 900 ELSE 0)
    + (IF a.bollinger.percentB > 90 THEN 900 ELSE 0)
    + (IF a.trend.direction = "BEARISH" THEN 9 * a.trend.strength ELSE 0)
    + (IF a.ichimoku.signal = "STRONG_BEARISH" THEN 600
       ELSE IF a.ichimoku.signal = "BEARISH" THEN 300 ELSE 0)
    + (IF a.stochasticRSI.k > 80 /\ a.stochasticRSI.d > 80 THEN 600 ELSE 0)
    + (IF a.momentum < -3 THEN 600 ELSE 0)
    + (IF a.vwap > 0 /\ currentPrice * 100 > a.vwap * 102 THEN 300 ELSE 0)

netScore(a, currentPrice) == buyScore(a, currentPrice) - sellScore(a, currentPrice)

TooFewPricesMutant(prices) == Len(prices) <= MinPrices
TooFewPrices(prices) == Len(prices) < MinPrices

generateSignal(prices, volumes, market) ==
    IF TooFewPrices(prices) THEN InsufficientData(prices)
    ELSE LET a == generateFullAnalysis(market, Len(prices))
             currentPrice == prices[Len(prices)]
             net == netScore(a, currentPrice)
             mag == IF net < 0 THEN -net ELSE net
             strong == Min(50 + RoundDiv(mag, 60), 95)
         IN  IF net > 900 THEN TradSignal("BUY", strong, "indicators", currentPrice, "full")
             ELSE IF net < -900
                  THEN TradSignal("SELL", strong, "indicators", currentPrice, "full")
             ELSE TradSignal("HOLD", 50 + RoundDiv(mag, 120), "indicators",
                             currentPrice, "full")

\* AI.generateMarketAnalysis(): it rejects, resolves to null, or resolves to
\* an analysis with this confidence.
AiOutcome(kind, confidence) == [kind |-> kind, confidence |-> confidence]

AiOutcomes ==
    {AiOutcome("throw", 0), AiOutcome("null", 0), AiOutcome("analysis", 40)}

Blend(signal, ai) ==
    IF ai.kind = "analysis"
    THEN [signal EXCEPT !.reason = "AI",
                        !.confidence = RoundDiv(signal.confidence + ai.confidence, 2),
                        !.aiEnhanced = TRUE]
    ELSE signal

TradSlots == 1..MaxTradSlots

IdleTrad == [pc |-> "idle", main |-> FALSE, signal |-> NoSig]

\* The slot that holds the frame of the next call: the lowest free one.
FreeSlot(s) ==
    /\ tradTicks[s].pc = "idle"
    /\ \A r \in TradSlots : r < s => tradTicks[r].pc # "idle"

NoPerformance ==
    [totalSignals |-> 0, buySignals |-> 0, sellSignals |-> 0, holdSignals |-> 0]

\* The counters of performance; its avgConfidence, a running mean that is
\* only ever written, is left out.
Counted(perf, signal) ==
    [totalSignals |-> perf.totalSignals + 1,
     buySignals |-> perf.buySignals + (IF signal.type = "BUY" THEN 1 ELSE 0),
     sellSignals |-> perf.sellSignals + (IF signal.type = "SELL" THEN 1 ELSE 0),
     holdSignals |-> perf.holdSignals + (IF signal.type \notin {"BUY", "SELL"} THEN 1 ELSE 0)]

NoCalls == [count |-> 0, last |-> NoSig]

Logged(calls, signal) == [count |-> calls.count + 1, last |-> signal]

Steady(n, x) == [i \in 1..n |-> x]

\* The inputs of a run: a short run sees every market and every outcome, a
\* long run sees one steady market and lasts until the histories are full.
TradInputs(workload) ==
    IF workload = "long"
    THEN [samples |-> TradSamples, markets |-> {DriftMarket}]
    ELSE [samples |-> TradSamples \cup {NoPriceData}, markets |-> Markets]

InitTradState(workload, primed, registered, ai, quota) ==
    /\ priceHistory = Steady(primed, 19000)
    /\ volumeHistory = Steady(primed, 0)
    /\ isRegistered = registered
    /\ aiEnabled = ai
    /\ performance = NoPerformance
    /\ tradMain = "primed"
    /\ tradTicks = [s \in TradSlots |-> IdleTrad]
    /\ tradTicksLeft = quota
    /\ tradWorkload = workload
    /\ tradPostLog = NoCalls
    /\ tradSendLog = NoCalls
    /\ tradReturns = <<>>

\* The state when main() has registered and primed the histories.
InitTrad ==
    \/ \E primed \in TradPrimings, registered \in BOOLEAN, ai \in BOOLEAN :
          InitTradState("short", primed, registered, ai, MaxTradTicks)
    \/ InitTradState("long", BuildHistoryCount, FALSE, FALSE,
                     TRAD_HISTORY_SIZE - BuildHistoryCount + MaxTradOver)

ParkTrad == InitTradState("short", 0, FALSE, FALSE, 0)

\* runAnalysis() returned or threw: the first call decides how main() goes on.
TradTickEnds(s, how) ==
    /\ tradTicks' = [tradTicks EXCEPT ![s] = IdleTrad]
    /\ tradReturns' = Append(tradReturns, how)
    /\ tradMain' = IF ~tradTicks[s].main THEN tradMain
                   ELSE IF how = "threw" THEN "failed" ELSE "up"

\* if (isRegistered && signal.confidence >= CONFIG.MIN_CONFIDENCE)
ShouldPostMutant(signal) == signal.confidence >= TRAD_MIN_CONFIDENCE
ShouldPost(signal) == isRegistered /\ signal.confidence >= TRAD_MIN_CONFIDENCE

\* From the performance update to the next await of runAnalysis().
TradReport(s, signal) ==
    /\ performance' = Counted(performance, signal)
    /\ IF signal.indicators = "empty"
       THEN /\ TradTickEnds(s, "threw")
            /\ UNCHANGED <<tradPostLog, tradSendLog>>
       ELSE IF ShouldPost(signal)
       THEN /\ tradTicks' = [tradTicks EXCEPT ![s].pc = "post", ![s].signal = signal]
            /\ tradPostLog' = Logged(tradPostLog, signal)
            /\ UNCHANGED <<tradSendLog, tradReturns, tradMain>>
       ELSE /\ tradTicks' = [tradTicks EXCEPT ![s].pc = "send", ![s].signal = signal]
            /\ tradSendLog' = Logged(tradSendLog, signal)
            /\ UNCHANGED <<tradPostLog, tradReturns, tradMain>>

TradFirstTick(s) ==
    /\ tradMain = "primed"
    /\ tradTicksLeft > 0
    /\ FreeSlot(s)
    /\ tradTicks' = [tradTicks EXCEPT ![s] = [IdleTrad EXCEPT !.pc = "fetch", !.main = TRUE]]
    /\ tradMain' = "first"
    /\ tradTicksLeft' = tradTicksLeft - 1
    /\ UNCHANGED <<priceHistory, volumeHistory, isRegistered, aiEnabled, performance,
                   tradWorkload, tradPostLog, tradSendLog, tradReturns>>
    /\ UNCHANGED notTrad

TradTimerTick(s) ==
    /\ tradMain = "up"
    /\ tradTicksLeft > 0
    /\ FreeSlot(s)
    /\ tradTicks' = [tradTicks EXCEPT ![s] = [IdleTrad EXCEPT !.pc = "fetch"]]
    /\ tradTicksLeft' = tradTicksLeft - 1
    /\ UNCHANGED <<priceHistory, volumeHistory, isRegistered, aiEnabled, performance,
                   tradMain, tradWorkload, tradPostLog, tradSendLog, tradReturns>>
    /\ UNCHANGED notTrad

Pushed(history, x) ==
    LET h == Append(history, x)
    IN  IF Len(priceHistory) + 1 > TRAD_HISTORY_SIZE
        THEN SubSeq(h, Max(1, Len(h) - TRAD_HISTORY_SIZE + 1), Len(h))
        ELSE h

TradFetchSettles(s, priceData, market) ==
    /\ tradTicks[s].pc = "fetch"
    /\ IF priceData = NoPriceData
       THEN /\ TradTickEnds(s, "null")
            /\ UNCHANGED <<priceHistory, volumeHistory, performance, tradPostLog,
                           tradSendLog>>
       ELSE /\ priceHistory' = Pushed(priceHistory, priceData.price)
            /\ volumeHistory' = Pushed(volumeHistory, priceData.volume)
            /\ LET signal == generateSignal(priceHistory', volumeHistory', market)
               IN  IF aiEnabled /\ signal.indicators = "full"
                   THEN /\ tradTicks' = [tradTicks EXCEPT ![s].pc = "ai",
                                                          ![s].signal = signal]
                        /\ UNCHANGED <<performance, tradMain, tradPostLog,
                                       tradSendLog, tradReturns>>
                   ELSE TradReport(s, signal)
    /\ UNCHANGED <<isRegistered, aiEnabled, tradTicksLeft, tradWorkload>>
    /\ UNCHANGED notTrad

TradAiSettles(s, ai) ==
    /\ tradTicks[s].pc = "ai"
    /\ TradReport(s, Blend(tradTicks[s].signal, ai))
    /\ UNCHANGED <<priceHistory, volumeHistory, isRegistered, aiEnabled,
                   tradTicksLeft, tradWorkload>>
    /\ UNCHANGED notTrad

TradPostSettles(s) ==
    /\ tradTicks[s].pc = "post"
    /\ tradTicks' = [tradTicks EXCEPT ![s].pc = "send"]
    /\ tradSendLog' = Logged(tradSendLog, tradTicks[s].signal)
    /\ UNCHANGED <<priceHistory, volumeHistory, isRegistered, aiEnabled, performance,
                   tradMain, tradTicksLeft, tradWorkload, tradPostLog, tradReturns>>
    /\ UNCHANGED notTrad

TradSendSettles(s) ==
    /\ tradTicks[s].pc = "send"
    /\ TradTickEnds(s, "signal")
    /\ UNCHANGED <<priceHistory, volumeHistory, isRegistered, aiEnabled, performance,
                   tradTicksLeft, tradWorkload, tradPostLog, tradSendLog>>
    /\ UNCHANGED notTrad

NextTrad ==
    \/ \E s \in TradSlots : TradFirstTick(s)
    \/ \E s \in TradSlots : TradTimerTick(s)
    \/ \E s \in TradSlots, priceData \in TradInputs(tradWorkload).samples,
          market \in TradInputs(tradWorkload).markets :
          TradFetchSettles(s, priceData, market)
    \/ \E s \in TradSlots, ai \in AiOutcomes : TradAiSettles(s, ai)
    \/ \E s \in TradSlots : TradPostSettles(s)
    \/ \E s \in TradSlots : TradSendSettles(s)


(***************************************************************************)
(*          HISTORY OF MARKET ANALYZER v2.0 (unnamed/part_001)             *)
(***************************************************************************)

MaxMv2Ticks == 3     \* runAnalysis() calls the environment starts in a short run
MaxMv2Over == 2      \* samples pushed past HISTORY_SIZE in a long run

MV2_HISTORY_SIZE == 500
Mv2PrimingCount == 60

\* What this module's fetchPrice() resolves to: it never resolves to null.
Mv2Samples == {TradSample(19000, 0), TradSample(19190, 5000)}

Mv2Inputs(workload) ==
    IF workload = "long" THEN {TradSample(19000, 0)} ELSE Mv2Samples

InitMv2State(workload, quota) ==
    /\ mv2PriceHistory = <<>>
    /\ mv2VolumeHistory = <<>>
    /\ mv2Primed = 0
    /\ mv2InFlight = 0
    /\ mv2TicksLeft = quota
    /\ mv2Workload = workload

InitMv2 ==
    \/ InitMv2State("short", MaxMv2Ticks)
    \/ InitMv2State("long", MV2_HISTORY_SIZE - Mv2PrimingCount + MaxMv2Over)

ParkMv2 == InitMv2State("short", 0)

\* One iteration of main()'s priming loop, in a steady market.
Mv2Prime ==
    /\ mv2Primed < Mv2PrimingCount
    /\ mv2PriceHistory' = Append(mv2PriceHistory, TradSample(19000, 0))
    /\ mv2Primed' = mv2Primed + 1
    /\ UNCHANGED <<mv2VolumeHistory, mv2InFlight, mv2TicksLeft, mv2Workload>>
    /\ UNCHANGED notMv2

\* runAnalysis() is called, by main() after the priming loop or by the timer
\* after that call returned, and waits for fetchPrice().
Mv2TickStart ==
    /\ mv2Primed = Mv2PrimingCount
    /\ mv2TicksLeft > 0
    /\ mv2InFlight = 0 \/ Len(mv2VolumeHistory) > 0
    /\ mv2InFlight < MaxTradSlots
    /\ mv2InFlight' = mv2InFlight + 1
    /\ mv2TicksLeft' = mv2TicksLeft - 1
    /\ UNCHANGED <<mv2PriceHistory, mv2VolumeHistory, mv2Primed, mv2Workload>>
    /\ UNCHANGED notMv2

Mv2Slice(history) ==
    SubSeq(history, Max(1, Len(history) - MV2_HISTORY_SIZE + 1), Len(history))

\* fetchPrice() resolved: runAnalysis() pushes the sample and trims.
Mv2FetchSettles(priceData) ==
    /\ mv2InFlight > 0
    /\ mv2InFlight' = mv2InFlight - 1
    /\ LET prices == Append(mv2PriceHistory, priceData)
           volumes == Append(mv2VolumeHistory, priceData.volume)
       IN  IF Len(prices) > MV2_HISTORY_SIZE
           THEN /\ mv2PriceHistory' = Mv2Slice(prices)
                /\ mv2VolumeHistory' = Mv2Slice(volumes)
           ELSE /\ mv2PriceHistory' = prices
                /\ mv2VolumeHistory' = volumes
    /\ UNCHANGED <<mv2Primed, mv2TicksLeft, mv2Workload>>
    /\ UNCHANGED notMv2

NextMv2 ==
    \/ Mv2Prime
    \/ Mv2TickStart
    \/ \E priceData \in Mv2Inputs(mv2Workload) : Mv2FetchSettles(priceData)



(***************************************************************************)
(*                 ANALYSIS LOOP OF THE HUB (ws-server.js)                 *)
(***************************************************************************)

\* Bounds of the model: token:analyze events and timer callbacks.
MaxAnalyzeRequests == 3
MaxLoopFires == 3

\* Token addresses the clients ask for, and a payload the handler rejects.
LoopTokens == {"X", "Y"}
InvalidToken == "bad"

\* The connected sockets.
LoopSockets == {"s1", "s2"}

\* let analysisInterval = null
NoTimer == 0

Timer(id, token) == [id |-> id, token |-> token]

\* A started runAndBroadcast(): its token, state.currentToken and
\* analysisInterval when it started, and the timer that started it (NoTimer
\* for the call startAnalysisLoop makes, before it creates the new timer).
Start(token, current, timer, loop) ==
    [token |-> token, current |-> current, timer |-> timer, loop |-> loop]

InitLoopState(requests, fires) ==
    /\ analysisInterval = NoTimer
    /\ loopTimers = {}
    /\ timerCount = 0
    /\ currentToken = ""
    /\ analysisResults = [t \in LoopTokens |-> 0]
    /\ loopRuns = [t \in LoopTokens |-> 0]
    /\ loopStarts = <<>>
    /\ loopEmitted = <<>>
    /\ socketErrors = [s \in LoopSockets |-> 0]
    /\ loopRequestsLeft = requests
    /\ loopFiresLeft = fires

InitLoop == InitLoopState(MaxAnalyzeRequests, MaxLoopFires)

ParkLoop == InitLoopState(0, 0)

\* !tokenAddress || typeof tokenAddress !== 'string' || tokenAddress.length < 10
InvalidAddress(data) == data \notin LoopTokens

\* if (analysisInterval)
LoopArmedMutant == FALSE
LoopArmed == analysisInterval # NoTimer

\* clearInterval(id): the runtime drops the timer, fired or not.
clearIntervalMutant(timers, id) == timers
clearInterval(timers, id) == {t \in timers : t.id # id}

\* runAndBroadcast() runs up to the await of analyzeToken().
runAndBroadcast(token, current, timer, loop) ==
    /\ loopRuns' = [loopRuns EXCEPT ![token] = @ + 1]
    /\ loopStarts' = Append(loopStarts, Start(token, current, timer, loop))

\* startAnalysisLoop(tokenAddress) with a valid address: the old timer is
\* cleared, the token becomes current, one run starts at once and a new
\* interval timer is created.
startAnalysisLoop(token) ==
    /\ currentToken' = token
    /\ runAndBroadcast(token, token, NoTimer, NoTimer)
    /\ timerCount' = timerCount + 1
    /\ analysisInterval' = timerCount + 1
    /\ loopTimers' =
          (IF LoopArmed THEN clearInterval(loopTimers, analysisInterval) ELSE loopTimers)
          \cup {Timer(timerCount + 1, token)}

\* socket.on('token:analyze'): an invalid payload gets an error event on the
\* socket and changes nothing else.
TokenAnalyze(socket, data) ==
    /\ loopRequestsLeft > 0
    /\ loopRequestsLeft' = loopRequestsLeft - 1
    /\ IF InvalidAddress(data)
       THEN /\ socketErrors' = [socketErrors EXCEPT ![socket] = @ + 1]
            /\ UNCHANGED <<analysisInterval, loopTimers, timerCount, currentToken,
                           loopRuns, loopStarts>>
       ELSE /\ startAnalysisLoop(data)
            /\ UNCHANGED socketErrors
    /\ UNCHANGED <<analysisResults, loopEmitted, loopFiresLeft>>
    /\ UNCHANGED notLoop

\* An active interval timer fires: its callback starts a run for the token
\* the timer was created with.
LoopTimerFires(timer) ==
    /\ timer \in loopTimers
    /\ loopFiresLeft > 0
    /\ loopFiresLeft' = loopFiresLeft - 1
    /\ runAndBroadcast(timer.token, currentToken, timer.id, analysisInterval)
    /\ UNCHANGED <<analysisInterval, loopTimers, timerCount, currentToken,
                   analysisResults, loopEmitted, socketErrors, loopRequestsLeft>>
    /\ UNCHANGED notLoop

\* analyzeToken() settles: with a result, which it stored in
\* state.analysisResults and which is then broadcast, or with null.
LoopRunSettles(token, ok) ==
    /\ loopRuns[token] > 0
    /\ loopRuns' = [loopRuns EXCEPT ![token] = @ - 1]
    /\ IF ok
       THEN /\ analysisResults' = [analysisResults EXCEPT ![token] = @ + 1]
            /\ loopEmitted' = Append(loopEmitted, token)
       ELSE UNCHANGED <<analysisResults, loopEmitted>>
    /\ UNCHANGED <<analysisInterval, loopTimers, timerCount, currentToken, loopStarts,
                   socketErrors, loopRequestsLeft, loopFiresLeft>>
    /\ UNCHANGED notLoop

NextLoop ==
    \/ \E socket \in LoopSockets, data \in LoopTokens \cup {InvalidToken} :
          TokenAnalyze(socket, data)
    \/ \E timer \in loopTimers : LoopTimerFires(timer)
    \/ \E token \in LoopTokens, ok \in BOOLEAN : LoopRunSettles(token, ok)



(***************************************************************************)
(*                 ADVISOR CLIENT  (unnamed/part_004)                      *)
(***************************************************************************)

\* Bound of the model: callGeminiAPI(prompt) calls the agents make.
MaxAdvisorCalls == 2

\* AI_CONFIG.maxRetries
maxRetries == 3

\* What one HTTP request to the API ends with: a response with a text, a
\* response without candidates, or an error (a status that is not ok, a
\* network failure, a body that is not JSON).
AttemptOutcomes == {"text", "empty", "error"}

NoGeminiCall == [pc |-> "idle", retries |-> 0, attempts |-> 0]

Returned(attempts, result) == [attempts |-> attempts, result |-> result]

InitAiState(key, calls) ==
    /\ geminiKey = key
    /\ geminiCall = NoGeminiCall
    /\ geminiLog = << >>
    /\ geminiCallsLeft = calls

InitAi == \E key \in BOOLEAN : InitAiState(key, MaxAdvisorCalls)

ParkAi == InitAiState(FALSE, 0)

\* if (retries > 0)
MayRetry(retries) == retries > 0

\* callGeminiAPI(prompt, retries) returns to the agent.
GeminiReturns(attempts, result) ==
    /\ geminiLog' = Append(geminiLog, Returned(attempts, result))
    /\ geminiCall' = NoGeminiCall

\* An agent calls callGeminiAPI(prompt): without a key it returns null at
\* once, otherwise the first request is sent with retries = maxRetries.
CallGeminiAPI ==
    /\ geminiCall.pc = "idle"
    /\ geminiCallsLeft > 0
    /\ geminiCallsLeft' = geminiCallsLeft - 1
    /\ IF ~geminiKey
       THEN GeminiReturns(0, "null")
       ELSE /\ geminiCall' = [pc |-> "fetch", retries |-> maxRetries, attempts |-> 1]
            /\ UNCHANGED geminiLog
    /\ UNCHANGED geminiKey
    /\ UNCHANGED notAi

\* The request settles: a text is returned, a response without text returns
\* null, an error is caught and leads to the one-second wait while retries
\* are left, and to null otherwise.
GeminiFetchSettles(outcome) ==
    /\ geminiCall.pc = "fetch"
    /\ IF outcome = "text" THEN GeminiReturns(geminiCall.attempts, "text")
       ELSE IF outcome = "empty" THEN GeminiReturns(geminiCall.attempts, "null")
       ELSE IF MayRetry(geminiCall.retries)
            THEN /\ geminiCall' = [geminiCall EXCEPT !.pc = "wait"]
                 /\ UNCHANGED geminiLog
            ELSE GeminiReturns(geminiCall.attempts, "null")
    /\ UNCHANGED <<geminiKey, geminiCallsLeft>>
    /\ UNCHANGED notAi

\* The wait is over: callGeminiAPI(prompt, retries - 1) sends the next
\* request.
GeminiRetry ==
    /\ geminiCall.pc = "wait"
    /\ geminiCall' = [pc |-> "fetch", retries |-> geminiCall.retries - 1,
                      attempts |-> geminiCall.attempts + 1]
    /\ UNCHANGED <<geminiKey, geminiLog, geminiCallsLeft>>
    /\ UNCHANGED notAi

NextAi ==
    \/ CallGeminiAPI
    \/ \E outcome \in AttemptOutcomes : GeminiFetchSettles(outcome)
    \/ GeminiRetry

(***************************************************************************)
(*                            SPECIFICATIONS                               *)
(***************************************************************************)

InitSpecOrch ==
    InitOrch /\ ParkChain /\ ParkHub /\ ParkPred /\ ParkScan /\ ParkPrice
    /\ ParkTrad /\ ParkMv2
    /\ ParkLoop /\ ParkAi

SpecOrch == InitSpecOrch /\ [][NextOrch]_vars

InitSpecChain ==
    InitChain /\ InitOrch /\ ParkHub /\ ParkPred /\ ParkScan /\ ParkPrice
    /\ ParkTrad /\ ParkMv2
    /\ ParkLoop /\ ParkAi

SpecChain == InitSpecChain /\ [][NextChain]_vars

InitSpecHub ==
    InitHub /\ InitOrch /\ ParkChain /\ ParkPred /\ ParkScan /\ ParkPrice
    /\ ParkTrad /\ ParkMv2
    /\ ParkLoop /\ ParkAi

SpecHub == InitSpecHub /\ [][NextHub]_vars

InitSpecHubFlood ==
    InitHubFlood /\ InitOrch /\ ParkChain /\ ParkPred /\ ParkScan /\ ParkPrice
    /\ ParkTrad /\ ParkMv2
    /\ ParkLoop /\ ParkAi

SpecHubFlood == InitSpecHubFlood /\ [][NextHubIngress]_vars

InitSpecPred ==
    InitPred /\ InitOrch /\ ParkChain /\ ParkHub /\ ParkScan /\ ParkPrice
    /\ ParkTrad /\ ParkMv2
    /\ ParkLoop /\ ParkAi

SpecPred == InitSpecPred /\ [][NextPred]_vars

\* The forecasts that are worth posting: removal from the pending list does
\* not depend on what was forecast.
LiveForecasts == { f \in Forecasts : BestPred(f) # 0 }

\* An agent with a usable wallet that starts with the Lens contract in reach.
InitSpecPredLive ==
    InitPredState(TRUE, FALSE, MaxPredClock) /\ InitOrch /\ ParkChain /\ ParkHub
    /\ ParkScan /\ ParkPrice /\ ParkTrad /\ ParkMv2
    /\ ParkLoop /\ ParkAi

\* A request that runPrediction() awaits settles.
PredSettles ==
    \E t \in PredTickIds :
        \/ \E out \in FetchOutcomes(TRUE) : VerifyFetchSettles(t, out)
        \/ \E out \in FetchOutcomes(TRUE) : \E forecast \in LiveForecasts :
              PriceFetchSettles(t, out, forecast)
        \/ PostSettles(t)

NextPredLive ==
    \/ \E t \in PredTickIds : PredTickStart(t)
    \/ PredSettles
    \/ \E d \in PredClockSteps : PredClock(d)

\* Every request a runPrediction() call awaits settles in the end: the reads
\* and the transaction of the chain client time out, and the continuation
\* then runs.
PredFairness == WF_vars(PredSettles)

SpecPredLive == InitSpecPredLive /\ [][NextPredLive]_vars /\ PredFairness

InitSpecScan ==
    InitScan /\ InitOrch /\ ParkChain /\ ParkHub /\ ParkPred /\ ParkPrice
    /\ ParkTrad /\ ParkMv2
    /\ ParkLoop /\ ParkAi

SpecScan == InitSpecScan /\ [][NextScan]_vars

InitSpecPrice ==
    InitPrice /\ InitOrch /\ ParkChain /\ ParkHub /\ ParkPred /\ ParkScan
    /\ ParkTrad /\ ParkMv2
    /\ ParkLoop /\ ParkAi

SpecPrice == InitSpecPrice /\ [][NextPrice]_vars

InitSpecTrad ==
    InitTrad /\ InitOrch /\ ParkChain /\ ParkHub /\ ParkPred /\ ParkScan /\ ParkPrice
    /\ ParkMv2 /\ ParkLoop /\ ParkAi

SpecTrad == InitSpecTrad /\ [][NextTrad]_vars

InitSpecMv2 ==
    InitMv2 /\ InitOrch /\ ParkChain /\ ParkHub /\ ParkPred /\ ParkScan /\ ParkPrice
    /\ ParkTrad /\ ParkLoop /\ ParkAi

SpecMv2 == InitSpecMv2 /\ [][NextMv2]_vars

InitSpecLoop ==
    InitLoop /\ InitOrch /\ ParkChain /\ ParkHub /\ ParkPred /\ ParkScan /\ ParkPrice
    /\ ParkTrad /\ ParkMv2 /\ ParkAi

SpecLoop == InitSpecLoop /\ [][NextLoop]_vars

InitSpecAi ==
    InitAi /\ InitOrch /\ ParkChain /\ ParkHub /\ ParkPred /\ ParkScan /\ ParkPrice
    /\ ParkTrad /\ ParkMv2 /\ ParkLoop

SpecAi == InitSpecAi /\ [][NextAi]_vars

(***************************************************************************)
(*                               CLAIMS                                    *)
(***************************************************************************)


\* The restart schedule of the claim, in milliseconds.
BackoffSchedule(k) == Min(5000 * Pow2(k - 1), 300000)

\* C1: the delay scheduled after the k-th crash of an agent is
\* min(5 s * 2^(k-1), 300 s): 5, 10, 20, 40, 80, 160, 300, 300, ... seconds,
\* and it is the delay of the restart timer that relaunches the agent.
C1_BackoffSchedule ==
    \A a \in Agents :
        /\ Len(restartLog[a]) = agentHealth[a].restarts
        /\ \A k \in 1..Len(restartLog[a]) : restartLog[a][k] = BackoffSchedule(k)
        /\ \A k \in 1..Min(Len(restartLog[a]), 8) :
              restartLog[a][k] =
                 <<5000, 10000, 20000, 40000, 80000, 160000, 300000, 300000>>[k]
        /\ \A i \in 1..Len(restartTimers[a]) :
              restartTimers[a][i] = restartLog[a][Len(restartLog[a])]

\* One agent crashed eight times: the cap was reached and applied again.
C1_Witness ==
    \E a \in Agents :
        /\ Len(restartLog[a]) >= 8
        /\ restartLog[a][7] = 300000
        /\ restartLog[a][8] = 300000

\* An exit the claim calls clean: code 0, or a null code (a signal).
CleanExit(code) == code.isNull \/ (code # NoExit /\ code.code = 0)

\* C2: once the latest child of an agent has exited with code 0 or with a
\* null code, no restart timer is pending for it and no child of it runs:
\* the supervisor schedules no relaunch.
C2_CleanExitNoRestart ==
    \A a \in Agents :
        CleanExit(lastExit[a]) =>
            /\ restartTimers[a] = << >>
            /\ liveChildren[a] = {}
            /\ agentProcesses[a] = NoProc

\* A child that had crashed and was relaunched is then killed by a signal.
C2_Witness ==
    \E a \in Agents :
        /\ lastExit[a].isNull
        /\ agentHealth[a].restarts >= 1
        /\ agentHealth[a].status = "STOPPED"

C4_RingCaps ==
    /\ Len(signals) <= 100
    /\ Len(whaleAlerts) <= 50
    /\ Len(tokenLaunches) <= 50
    /\ Len(mevOpportunities) <= 50
    /\ Len(gasUpdates) <= 50

\* A ring took more POSTs than its cap and holds exactly the cap: the
\* signals ring after 101 accepted signals, an alert ring after 51 alerts.
C4_Witness ==
    \/ Len(emitted["signal"]) > 100 /\ Len(signals) = 100
    \/ Len(emitted["whale:alert"]) > 50 /\ Len(whaleAlerts) = 50

\* The consensus computed at time now from the signals sigs, as the claim
\* observes it: the weighted sum, the total weight and the contributors.
ConsensusOf(sigs, now) ==
    LET c == computeConfluenceScore(sigs, now)
    IN  <<c.weightedSum, c.totalWeight, c.agentCount, c.breakdown, c.consensus, c.strength>>

\* A signal received more than 20 minutes before now.
Stale(sig, now) == sig # NoSignal /\ now - sig.receivedAt > 20 * 60 * 1000

\* C5: a signal in agentSignals received more than 20 minutes ago
\* contributes nothing: the consensus computed now is the one computed
\* without that signal, and its agent is not among the contributors.
C5_ExpiredIgnored ==
    \A n \in DOMAIN agentSignals :
        Stale(agentSignals[n], hubNow) =>
            /\ ConsensusOf(agentSignals, hubNow)
                  = ConsensusOf([agentSignals EXCEPT ![n] = NoSignal], hubNow)
            /\ n \notin computeConfluenceScore(agentSignals, hubNow).breakdown

\* GET /api/state answered while one weighted agent's signal is stale and
\* another's is fresh: the consensus counts one agent.
C5_Witness ==
    /\ \E n \in DOMAIN agentSignals :
          Stale(agentSignals[n], hubNow) /\ agentSignals[n].type # "HOLD"
    /\ \E n \in DOMAIN agentSignals :
          agentSignals[n] # NoSignal /\ ~Stale(agentSignals[n], hubNow)
    /\ lastResponse.kind = "state"
    /\ lastResponse.at = hubNow
    /\ lastResponse.confluence.agentCount = 1

(***************************************************************************)
(*                    Claims on the prediction agent                       *)
(***************************************************************************)

NoPredTickInProgress == \A t \in PredTickIds : predTicks[t].pc \in {"idle", "done"}

VerificationOver(t) == predTicks[t].pc \in {"priceFetch", "post", "done"}

\* C6: every pending prediction whose targetTime has passed is verified exactly
\* once: its outcome is counted once in the correct/incorrect tallies, however
\* the timer's ticks interleave, and a tick that has finished its verification
\* has counted and removed from pending every prediction that was due when it
\* began.
C6_VerifiedExactlyOnce ==
    /\ \A p \in DOMAIN predHeap : predTally[p] <= 1
    /\ perfCorrect + perfIncorrect =
          Cardinality({ p \in DOMAIN predHeap : predHeap[p].verified })
    /\ \A t \in PredTickIds : \A p \in DOMAIN predHeap :
          ( /\ VerificationOver(t)
            /\ predHeap[p].hasTarget
            /\ predHeap[p].targetTime <= predTicks[t].now )
          => ( /\ predTally[p] >= 1
               /\ \A i \in DOMAIN pendingPredictions : pendingPredictions[i] # p )

\* C7: whenever no prediction tick is in progress, the verified predictions
\* and the pending predictions together are as many as the predictions created.
C7_VerifiedPlusPendingIsTotal ==
    NoPredTickInProgress =>
        Len(verifiedPredictions) + Len(pendingPredictions) = totalPredictions


(***************************************************************************)
(*                   Claims on the transfer-log scanner                    *)
(***************************************************************************)

\* C8: within one agent instance lastScannedBlock never decreases, whatever
\* block numbers the chain reports: no step of the scanner lowers it.
C8_CursorNeverDecreases == [][lastScannedBlock' >= lastScannedBlock]_vars

\* C9: no block number lies in the range of more than one successful
\* Transfer-log scan of the same agent instance.
C9_NoBlockScannedTwice ==
    \A i, j \in DOMAIN scanLog :
        i < j => \/ scanLog[i].toBlock < scanLog[j].fromBlock
                 \/ scanLog[j].toBlock < scanLog[i].fromBlock

(***************************************************************************)
(*                      Claims on the price service                        *)
(***************************************************************************)

\* Call j was made after call i had returned, for the same token.
CalledAfter(i, j) ==
    /\ priceLog[i].token = priceLog[j].token
    /\ priceLog[i].doneSeq < priceLog[j].startSeq

\* Call i stored its sample, and it is still the token's cache entry when call
\* j is made.
EntryOf(i, j) ==
    /\ CalledAfter(i, j)
    /\ priceLog[i].stored
    /\ \A k \in DOMAIN priceLog :
          ( /\ priceLog[k].stored
            /\ priceLog[k].token = priceLog[i].token
            /\ priceLog[k].doneSeq < priceLog[j].startSeq )
          => priceLog[k].doneSeq <= priceLog[i].doneSeq

SameSampleFromCache(i, j) ==
    /\ priceLog[j].result.source = "cache"
    /\ priceLog[j].result.timestamp = priceLog[i].result.timestamp

\* C10 as stated: two fetchPrice calls for the same token less than 5 s apart,
\* the first returning a sample: the second returns source "cache" and the
\* timestamp of the first's sample.
C10_TwoCallsWithinFiveSeconds ==
    \A i, j \in DOMAIN priceLog :
        ( /\ CalledAfter(i, j)
          /\ priceLog[i].result # NullResult
          /\ priceLog[j].startedAt - priceLog[i].startedAt < 5000 )
        => SameSampleFromCache(i, j)

\* C10 as amended: when a call fetched its sample from DexScreener or the Lens
\* contract and stored it, a call for the same token made after it returned and
\* less than 5 s after it was made, with no newer sample stored for the token
\* in between, returns source "cache" with the timestamp and the price of that
\* sample.
C10_FreshEntryServed ==
    \A i, j \in DOMAIN priceLog :
        ( /\ EntryOf(i, j)
          /\ priceLog[j].startedAt - priceLog[i].startedAt < 5000 )
        => /\ SameSampleFromCache(i, j)
           /\ priceLog[j].result.price = priceLog[i].result.price

\* A call fetched and stored a sample, and a later call less than 5 s after it
\* was served from the cache after the clock had moved.
C10_Witness ==
    \E i, j \in DOMAIN priceLog :
        /\ EntryOf(i, j)
        /\ priceLog[j].startedAt > priceLog[i].result.timestamp
        /\ priceLog[j].startedAt - priceLog[i].startedAt < 5000
        /\ priceLog[j].result.source = "cache"

\* C11: in every agent, at every observable moment, priceHistory has at most
\* HISTORY_SIZE entries and volumeHistory is exactly as long as priceHistory.
C11_HistoriesBoundedAndAligned ==
    /\ Len(priceHistory) <= TRAD_HISTORY_SIZE
    /\ Len(volumeHistory) = Len(priceHistory)
    /\ Len(mv2PriceHistory) <= MV2_HISTORY_SIZE
    /\ Len(mv2VolumeHistory) = Len(mv2PriceHistory)

\* A request to /api/signal or /api/agent/heartbeat whose body lacks agentName.
NamelessPost ==
    \E data \in hubBodies :
        /\ data.agentName = ""
        /\ PostSignal(data) \/ PostHeartbeat(data)

\* C12: a POST to /api/signal or /api/agent/heartbeat whose body lacks
\* agentName is answered with 400 and changes nothing in the hub: no ring
\* grows, agentSignals and agents stay as they are, nothing is broadcast.
C12_NamelessPostRejected ==
    [][NamelessPost =>
          /\ lastResponse' = BadRequest
          /\ UNCHANGED <<hubNow, hubAgents, signals, agentSignals, whaleAlerts,
                         tokenLaunches, mevOpportunities, gasUpdates, emitted>>]_vars

\* A nameless request was refused after a signal and a heartbeat were accepted.
C12_Witness ==
    /\ lastResponse = BadRequest
    /\ signals # <<>>
    /\ \E n \in DOMAIN hubAgents : hubAgents[n] # NoHeartbeat

\* The body of the signal the hub accepted last.
LastAccepted == emitted["signal"][Len(emitted["signal"])]

\* C13: once the hub has accepted a signal from agent A with confidence c, a
\* GET /api/state served before any other signal is accepted answers with
\* recentSignals[0] carrying agentName = A and confidence = c.
C13_LatestSignalLeadsState ==
    (lastResponse.kind = "state" /\ emitted["signal"] # <<>>) =>
        /\ lastResponse.recentSignals # <<>>
        /\ lastResponse.recentSignals[1].agentName = LastAccepted.agentName
        /\ lastResponse.recentSignals[1].confidence = LastAccepted.confidence

\* The state was served after two different agents' signals were accepted.
C13_Witness ==
    /\ lastResponse.kind = "state"
    /\ Len(emitted["signal"]) = 2
    /\ emitted["signal"][1].agentName # emitted["signal"][2].agentName
    /\ lastResponse.recentSignals[1].agentName = emitted["signal"][2].agentName

\* The postSignal/postPrediction calls made so far, the running one included.
PostCallsSoFar ==
    { postLog[i] : i \in 1..Len(postLog) } \cup (IF postPc = "idle" THEN {} ELSE {postCur})

\* C14: a postSignal call with a confidence outside [0,100] (101, say) fails
\* in the chain client before anything is sent: the call submits no
\* transaction.
C14_OutOfRangeSignalNotSent ==
    \A call \in PostCallsSoFar :
        (call.fn = "postSignal" /\ ~(call.confidence \in 0..100)) => ~call.wrote

\* C15: without PRIVATE_KEY the process is read-only: registerAgent,
\* postSignal and postPrediction never submit a transaction.
C15_ReadOnlyWithoutKey ==
    ~walletClient =>
        /\ txCount = 0
        /\ mempool = {}
        /\ receipts = {}
        /\ \A i \in 1..Len(regLog) : ~regLog[i].wrote
        /\ \A call \in PostCallsSoFar : ~call.wrote

\* Without a key, registerAgent, postSignal and postPrediction were all called
\* and have returned.
C15_Witness ==
    /\ ~walletClient
    /\ Len(regLog) = 1
    /\ \E i \in 1..Len(postLog) : postLog[i].fn = "postSignal"
    /\ \E i \in 1..Len(postLog) : postLog[i].fn = "postPrediction"

\* C16: on SIGINT or SIGTERM the supervisor sends SIGTERM to every child that
\* is running at that moment, and exits with code 0 no later than 2 s after.
C16_GracefulShutdown ==
    /\ orchPhase # "up" => \A a \in Agents : aliveAtSignal[a] \subseteq termSent[a]
    /\ orchPhase = "stopping" => sinceSignal <= 2000
    /\ orchPhase = "exited" => exitCode = 0 /\ sinceSignal <= 2000

\* The supervisor has exited after a signal that found every agent running,
\* one of them relaunched after a crash.
C16_Witness ==
    /\ orchPhase = "exited"
    /\ \A a \in Agents : aliveAtSignal[a] # {}
    /\ \E a \in Agents : agentHealth[a].restarts >= 1 /\ aliveAtSignal[a] # {}
    /\ sinceSignal = 2000

\* agentSignals holds fresh signals of exactly the four agents of FourBodies,
\* each with the type and confidence given there.
FourFreshSignals(now) ==
    /\ DOMAIN agentSignals = NamesOf(FourBodies)
    /\ \A b \in FourBodies :
          /\ agentSignals[b.agentName] # NoSignal
          /\ agentSignals[b.agentName].type = b.type
          /\ agentSignals[b.agentName].confidence = b.confidence
          /\ now - agentSignals[b.agentName].receivedAt <= SIGNAL_EXPIRY

\* C17: with fresh signals Trading BUY@80, Market HOLD@50, Prediction SELL@60
\* and Liquidity BUY@70 and no others, the consensus computation yields the
\* normalized score 0.234 / 0.77 (0.304 to three places), BUY and strength 30.
C17_FourAgentConsensus ==
    (lastResponse.kind = "state" /\ FourFreshSignals(lastResponse.at)) =>
        /\ lastResponse.confluence.weightedSum = 2340
        /\ lastResponse.confluence.totalWeight = 77
        /\ RoundDiv(10 * lastResponse.confluence.weightedSum,
                    lastResponse.confluence.totalWeight) = 304
        /\ lastResponse.confluence.consensus = "BUY"
        /\ lastResponse.confluence.strength = 30
        /\ lastResponse.confluence.agentCount = 4

\* The state was served with the four signals in place, the earliest of them
\* received some time before.
C17_Witness ==
    /\ lastResponse.kind = "state"
    /\ FourFreshSignals(lastResponse.at)
    /\ \E n \in DOMAIN agentSignals : agentSignals[n].receivedAt < lastResponse.at

\* The quote of the fallback is one the claim calls anomalous: a price of at
\* most 1e-7 MON or above 1e3 MON.
AnomalousQuote(quote) == quote # -1 /\ (quote <= 100 \/ quote \div 1000000000 > 1000)

\* C18: when the primary source fails for the focal token and the fallback
\* quote is at most 1e-7 or above 1e3, fetchPrice rejects the quote and returns
\* the previously cached sample marked source = "cache" if the cache is not
\* empty, and nil otherwise.
C18_AnomalousQuoteServedFromCache ==
    \A i \in 1..Len(priceLog) :
        AnomalousQuote(priceLog[i].quote) =>
            priceLog[i].result =
                IF priceLog[i].cached # NoData
                THEN [priceLog[i].cached EXCEPT !.source = "cache"]
                ELSE NullResult

\* C19: the first scan after a start at chain head B queries the blocks from
\* B - 500 to B, and the next scan, at head B + 50, queries from B + 1 to
\* B + 50.
C19_FirstAndSecondRange ==
    /\ scanLog # <<>> => scanLog[1].fromBlock = scanLog[1].toBlock - 500
    /\ (Len(scanLog) >= 2 /\ scanLog[2].toBlock = scanLog[1].toBlock + 50) =>
          scanLog[2].fromBlock = scanLog[1].toBlock + 1

\* The leading n prices and volumes of the histories.
Leading(history, n) == SubSeq(history, 1, n)

\* C20: for every history of fewer than 30 prices the signal generator of the
\* Trading agent returns HOLD with confidence 30 and the reason
\* "Insufficient data", and for a history of exactly 30 prices it returns a
\* computed signal, not the placeholder.
C20_PlaceholderBelowThirty ==
    \A n \in 0..Min(Len(priceHistory), 30), market \in Markets :
        LET signal == generateSignal(Leading(priceHistory, n),
                                     Leading(volumeHistory, Min(n, Len(volumeHistory))),
                                     market)
        IN  /\ n < 30 => /\ signal.type = "HOLD"
                         /\ signal.confidence = 30
                         /\ signal.reason = "Insufficient data"
            /\ n = 30 => /\ signal.reason # "Insufficient data"
                         /\ signal.indicators = "full"

\* A run primed with 29 prices whose first analysis, over exactly 30 prices,
\* reported a computed signal.
C20_Witness ==
    /\ Len(priceHistory) = 30
    /\ tradSendLog.count = 1
    /\ tradSendLog.last.indicators = "full"
    /\ tradSendLog.last.reason # "Insufficient data"

\* C21: when the aggregator returns an empty pairs list, fetchPrice returns
\* nil (and the tick of the agent that receives nil emits no signal and the
\* agent keeps running): in a run in which every response has an empty pairs
\* list, every call that was not served from the cache returns nil.
C21_EmptyPairsGiveNil ==
    dexWorkload = "empty" =>
        \A i \in DOMAIN priceLog :
            priceLog[i].result.source # "cache" => priceLog[i].result = NullResult

\* The runAnalysis() calls of the Trading agent that are in progress.
TradInProgress == {s \in TradSlots : tradTicks[s].pc # "idle"}

\* C22: within one agent a tick never begins while the analysis of the
\* previous tick is still in progress, however long that analysis runs: at
\* most one analysis is in progress at a time.
C22_TicksAreSerial == Cardinality(TradInProgress) <= 1

\* The fetchPrice() calls whose DexScreener request for this token is pending.
Upstream(token) ==
    {c \in PriceCallIds : priceCalls[c].pc = "dex" /\ priceCalls[c].token = token}

\* C23: two concurrent fetchPrice calls for one token that both miss the cache
\* cause at most one upstream request: at no time are two requests for the
\* same token pending.
C23_ConcurrentMissesCoalesce ==
    \A token \in Tokens : Cardinality(Upstream(token)) <= 1

\* C24: after startAnalysisLoop(Y) replaced a loop for token X, no scheduled
\* run for X that had not started ever starts, and every run scheduled
\* afterwards is for Y: each run that starts is the one startAnalysisLoop
\* makes or comes from the timer of the current loop, it is for the token that
\* is current when it starts, and every active timer is for the current token.
C24_ReplacedLoopNeverRuns ==
    /\ \A i \in DOMAIN loopStarts :
          /\ loopStarts[i].token = loopStarts[i].current
          /\ loopStarts[i].timer = loopStarts[i].loop
    /\ \A t \in loopTimers : t.token = currentToken

\* A scheduled run for X started, Y replaced the loop, a scheduled run for Y
\* started, and a result computed for X is still stored.
C24_Witness ==
    /\ analysisResults["X"] > 0
    /\ \E i, j, k \in DOMAIN loopStarts :
          /\ i < j /\ j < k
          /\ loopStarts[i].token = "X" /\ loopStarts[i].timer # NoTimer
          /\ loopStarts[j].token = "Y" /\ loopStarts[j].timer = NoTimer
          /\ loopStarts[k].token = "Y" /\ loopStarts[k].timer # NoTimer

\* C25: at any moment the hub has at most one active analysis-loop timer,
\* whatever token:analyze requests the clients sent.
C25_OneLoopTimer == Cardinality(loopTimers) <= 1

\* Every request of the run started a loop and one timer is active.
C25_Witness ==
    /\ timerCount = MaxAnalyzeRequests
    /\ Cardinality(loopTimers) = 1

\* C26: once the supervisor has received SIGINT or SIGTERM it spawns no
\* further child, a restart timer pending at that time does not relaunch its
\* agent, and so no child is left running that was not sent SIGTERM.
C26_NoSpawnAfterSignal ==
    orchPhase # "up" => \A a \in Agents : liveChildren[a] \subseteq termSent[a]

\* C30: at every moment the supervisor has at most one live child process per
\* agent, across the staggered launch, crashes and scheduled restarts.
C30_OneChildPerAgent == \A a \in Agents : Cardinality(liveChildren[a]) <= 1

\* Every agent crashed, was restarted by its timer and runs again.
C30_Witness ==
    \A a \in Agents :
        /\ spawnCount[a] >= 2
        /\ Len(restartLog[a]) >= 1
        /\ Cardinality(liveChildren[a]) = 1

\* The list behind a ring endpoint.
RingOf(e) ==
    CASE e = "signal" -> signals
      [] e = "launch" -> tokenLaunches
      [] e = "mev" -> mevOpportunities
      [] e = "gas" -> gasUpdates
      [] OTHER -> whaleAlerts

\* A ring entry without the receivedAt the hub stamped on it.
Unstamped(entry) == Body(entry.agentName, entry.type, entry.confidence)

\* C27: for each ring the clients receive its broadcast events in the order
\* in which the hub accepted the POSTs, the append and the broadcast of one
\* event being one step: the ring, newest first, holds the latest broadcasts
\* of its event, latest first.
C27_BroadcastInIngressOrder ==
    \A e \in Rings :
        LET ring == RingOf(e)
            sent == emitted[EventOf(e)]
        IN  /\ Len(ring) = Min(Len(sent), RingCap(e))
            /\ \A i \in 1..Len(ring) : Unstamped(ring[i]) = sent[Len(sent) - i + 1]

\* Two rings took POSTs in one run and one of them holds two different
\* events.
C27_Witness ==
    \E e1, e2 \in Rings :
        /\ e1 # e2
        /\ Len(RingOf(e1)) = 2
        /\ Unstamped(RingOf(e1)[1]) # Unstamped(RingOf(e1)[2])
        /\ Len(RingOf(e2)) >= 1

\* C28 as stated: while handling one POST /api/signal the hub overwrites
\* agentSignals[agentName] first, appends to the signals ring second and
\* broadcasts the signal event last.
C28_OverwriteAppendBroadcast ==
    \A i \in DOMAIN signalSteps :
        /\ signalSteps[i].appended => signalSteps[i].overwritten
        /\ signalSteps[i].broadcast => signalSteps[i].appended

\* C28, amended: while handling one POST /api/signal the hub appends to the
\* signals ring first, overwrites agentSignals[agentName] second and
\* broadcasts the signal event last.
C28_AppendOverwriteBroadcast ==
    /\ \A i \in DOMAIN signalSteps :
          /\ (signalSteps[i].overwritten /\ i > 1) => signalSteps[i].appended
          /\ signalSteps[i].broadcast =>
                signalSteps[i].appended /\ signalSteps[i].overwritten
    /\ signalSteps # << >> =>
          /\ signalSteps[1].appended /\ ~signalSteps[1].broadcast
          /\ signalSteps[2].overwritten /\ ~signalSteps[2].broadcast
          /\ signalSteps[3].broadcast

\* A signal of an agent that replaced an earlier, different signal of the
\* same agent was handled.
C28_Witness ==
    /\ Len(signals) >= 2
    /\ signals[1].agentName = signals[2].agentName
    /\ signals[1] # signals[2]
    /\ signalSteps # << >>
    /\ ~signalSteps[1].overwritten

C31_BroadcastIsForCurrentToken ==
    [][Len(loopEmitted') > Len(loopEmitted) =>
          loopEmitted'[Len(loopEmitted')] = currentToken']_vars

\* C32: successful Transfer-log scans of one agent instance cover contiguous
\* block ranges: each successful scan starts at the block right after the end
\* of the previous successful scan, and a failed log query leaves
\* lastScannedBlock unchanged.
C32_ScansAreContiguous ==
    [][ /\ (scanLog' # scanLog /\ scanLog # << >>) =>
              scanLog'[Len(scanLog')].fromBlock = scanLog[Len(scanLog)].toBlock + 1
        /\ (\E t \in ScanTickIds :
               /\ scanTicks[t].pc = "getLogs"
               /\ scanTicks'[t].pc = "done"
               /\ scanLog' = scanLog) => lastScannedBlock' = lastScannedBlock ]_vars

\* Slot s passed, in this step, the test that guards postSignal() with the
\* signal it goes on with.
TradDecided(s) ==
    /\ tradTicks[s].pc \in {"fetch", "ai"}
    /\ tradTicks'[s].pc \in {"post", "send"}

\* postSignal() was invoked in this step.
TradPosted == tradPostLog'.count = tradPostLog.count + 1

\* C33 as stated: in each tick that produces a signal the agent invokes
\* postSignal on the chain client if and only if the signal's confidence is
\* at least the configured minimum on-chain confidence.
C33_PostIffConfident ==
    [][\A s \in TradSlots :
          TradDecided(s) =>
             (TradPosted <=> tradTicks'[s].signal.confidence >= TRAD_MIN_CONFIDENCE)]_vars

\* C33, amended: in each tick that produces a signal the agent invokes
\* postSignal on the chain client if and only if the agent is registered and
\* the signal's confidence is at least the configured minimum on-chain
\* confidence.
C33_PostIffRegisteredAndConfident ==
    [][\A s \in TradSlots :
          TradDecided(s) =>
             /\ TradPosted <=>
                   (isRegistered /\ tradTicks'[s].signal.confidence >= TRAD_MIN_CONFIDENCE)
             /\ TradPosted => /\ tradTicks'[s].pc = "post"
                              /\ tradPostLog'.last = tradTicks'[s].signal]_vars

\* A registered agent is in postSignal() with a signal of confidence 60 or
\* more, after a tick that sent a signal of lower confidence to the hub only.
C33_Witness ==
    /\ isRegistered
    /\ \E s \in TradSlots :
          /\ tradTicks[s].pc = "post"
          /\ tradTicks[s].signal.confidence >= TRAD_MIN_CONFIDENCE
    /\ tradSendLog.count >= 1
    /\ tradSendLog.last.confidence < TRAD_MIN_CONFIDENCE
    /\ tradPostLog.count = 1

\* C34: a hub that is down or never responds does not block the agent: while
\* a tick waits on its hub request, the on-chain post of that tick has been
\* made already and the timer that starts the subsequent ticks is armed.
C34_HubNeverBlocksAgent ==
    \A s \in TradSlots :
        tradTicks[s].pc = "send" =>
            /\ ShouldPost(tradTicks[s].signal) => tradPostLog.count >= 1
            /\ tradMain = "up"

\* C35: for every content of agentSignals the hub reaches through accepted
\* POST /api/signal requests, the normalized consensus score, weightedSum /
\* totalWeight, lies in [-1, 1].
C35_NormalizedScoreInRange ==
    LET c == computeConfluenceScore(agentSignals, hubNow)
    IN  Abs(c.weightedSum) <= 100 * c.totalWeight

\* The share, in rounded percent, of the entries of list that equal its most
\* common entry.
ModeShare(list) ==
    LET most == CHOOSE k \in 1..Len(list) :
                   /\ \E i \in DOMAIN list : Occurrences(list, list[i]) = k
                   /\ \A i \in DOMAIN list : Occurrences(list, list[i]) <= k
    IN  RoundDiv(100 * most, Len(list))

C37_ConfidenceFromNet ==
    /\ (tradSendLog.last.indicators = "full" /\ Len(priceHistory) >= MinPrices) =>
          \A market \in Markets :
              LET sig == generateSignal(priceHistory, volumeHistory, market)
                  net == netScore(generateFullAnalysis(market, Len(priceHistory)),
                                  LastPrice(priceHistory))
              IN  /\ sig.confidence = Min(95, 50 + RoundDiv(Abs(net), 60))
                  /\ sig.confidence \in 25..95
    /\ tradSendLog.last.indicators = "full" => tradSendLog.last.confidence \in 25..95

LongestHorizon == PREDICTION_HORIZONS[Len(PREDICTION_HORIZONS)] * 60 * 1000

C39_ClientHeartbeatAccepted ==
    [][(\E agentId \in HeartbeatClients : SendHeartbeat(agentId)) =>
          /\ lastResponse' = Ok
          /\ \E n \in DOMAIN hubAgents' :
                /\ hubAgents'[n].lastHeartbeat = hubNow
                /\ hubAgents'[n].status = "RUNNING"]_vars

\* C40: one advisor call makes at most 3 HTTP attempts in total before it
\* gives up and returns null.
C40_AtMostThreeAttempts ==
    /\ geminiCall.attempts <= 3
    /\ \A i \in DOMAIN geminiLog : geminiLog[i].attempts <= 3

=============================================================================
